---- MODULE Spec2Model ----
(***************************************************************************)
(* Dual-ledger settlement engine of crypto-vision.                         *)
(*                                                                         *)
(*   ledger contract      CryptoTradingContract (Solidity)                 *)
(*   chain wrappers       server/config/blockchain.js                      *)
(*   order handlers       buyCryptocurrency / sellCryptocurrency of the    *)
(*                        real-time trading controller                     *)
(*   journal              the MySQL table `transactions`                   *)
(*   price service        server/services/binance.service.js               *)
(*                                                                         *)
(* Every handler is an async function: it is cut at its awaits, one action *)
(* per segment, so that requests interleave exactly where Node lets them.  *)
(* Amounts are whole tokens; WEI stands for the contract's 10**18 scale,   *)
(* scaled down so that every product stays inside TLC's integers.          *)
(***************************************************************************)
EXTENDS Integers, Sequences, FiniteSets, TLC

\* ------------------------------------------------------------------ bounds
\* Orders that may reach the ledgers: caps the journal length and the
\* signer's nonce (and with them the contract's transaction counter).
MaxOrders == 3

\* Wei each account holds when the contract is called directly, and the
\* records the contract may write then (SpecContract).
Purse == 2
MaxRecords == 2

\* ------------------------------------------------------- program constants
\* 10**18, the fixed-point scale of the contract, scaled down.
WEI == 200

\* ---------------------------------------------------------------- domains
Procs == {"p1", "p2"}
Users == {"u1", "u2"}
Accounts == {"O", "S", "W"}

\* Symbols as a request may spell them; "" is a missing field.
ReqSymbols == {"", "XYZ", "ETH", "eth", "BTC", "ADA", "BNB"}
Prices == {1, 2}

\* The requests a specification draws from: users, symbols, amounts, the
\* ethValue of a buy, and the prices the oracle may answer.
Domain(users, symbols, amounts, values, prices) ==
    [users |-> users, symbols |-> symbols, amounts |-> amounts,
     values |-> values, prices |-> prices]

\* String.prototype.toUpperCase on the symbols above.
toUpperCase(s) == IF s = "eth" THEN "ETH" ELSE s

ChainSymbols == {toUpperCase(s) : s \in ReqSymbols}

\* The account that deployed the contract.
Deployer == "O"

\* A key of the wallet made for a user at registration.
WalletKey == "W"

\* The signing account: the one whose key is process.env.USER_PRIVATE_KEY.
Signer == "S"

\* req.user.wallet_address: u1's row holds the signer's own address, u2's
\* a wallet made by createAccount() at registration.
wallet_address(u) == IF u = "u1" THEN "S" ELSE "W"

\* web3.utils.toWei(x, "ether") and fromWei(x, "ether")
toWei(x) == x * WEI
fromWei(x) == x \div WEI

\* Wei each account holds when the server starts: enough for every order.
Funds == toWei(MaxOrders + 1)

\* A direct call to the contract and how it ended (revert: the reason, ""
\* when the call succeeded). amount is the second argument of the call: the
\* amount of a buy, sell or withdrawal, the price of an add or update.
Call(fn, sender, s, amt, value, revert) ==
    [fn |-> fn, sender |-> sender, sym |-> s, amount |-> amt, value |-> value,
     revert |-> revert]

NoCall == Call("", "O", "", 0, 0, "")

VARIABLES
    contract,          \* blockchain.js: is `contract` set (initContract succeeded)
    nonce,             \* chain: transactions sent by each account
    cryptocurrencies,  \* contract: symbol -> [price, isActive]
    userBalances,      \* contract: account -> symbol -> amount (wei)
    transactionCount,  \* contract
    transactions,      \* contract: id -> Transaction, ids 1..transactionCount
    reserve,           \* contract: address(this).balance (wei)
    owner,             \* contract
    supportedCryptos,  \* contract: string[]
    userTransactions,  \* contract: account -> ids of its records
    eth,               \* chain: wei held by each account
    last,              \* history: the last call made directly to the contract
    journal,           \* rows of the table `transactions`, in insertion order
    procs,             \* the requests in flight, one per slot
    out,               \* the request the last step answered, if it answered one
    trip,              \* history: a buy and the sell that follows it (SpecTrip)
    view,              \* history: the last read of the contract and its result
    priceCache,        \* binance.service.js: symbol -> cached price
    stream,            \* binance.service.js: the price subscription's socket
    answer,            \* history: the last call of the price service, its result
    reply              \* the read endpoints: the request in progress, its response

vars == <<contract, nonce, cryptocurrencies, userBalances,
          transactionCount, transactions, reserve, owner, supportedCryptos,
          userTransactions, eth, last, journal, procs, out, trip,
          view, priceCache, stream, answer, reply>>

\* The price service: its cache, its subscription and what it last answered.
oracleVars == <<priceCache, stream, answer>>

\* The contract's storage and the ether it moves.
ledgerVars == <<cryptocurrencies, userBalances, transactionCount, transactions,
                reserve, owner, supportedCryptos, userTransactions, eth>>

chainVars == <<nonce, ledgerVars, last>>

\* ----------------------------------------------------- the ledger contract
\* constructor: BTC, ETH, ADA and DOT are registered; nothing else is.
InitialPrice(s) ==
    CASE s = "BTC" -> 30000 * WEI
      [] s = "ETH" -> 1 * WEI
      [] s = "ADA" -> (5 * WEI) \div 1000
      [] s = "DOT" -> (10 * WEI) \div 1000
      [] OTHER -> 0

\* The cost rounded up to the next wei.
totalCostCeil(s, amt) == (amt * cryptocurrencies[s].price + WEI - 1) \div WEI

\* uint256 totalCost = (_amount * cryptocurrencies[_symbol].price) / 10**18
totalCost(s, amt) == (amt * cryptocurrencies[s].price) \div WEI

\* buyCryptocurrency asking for more than the cost.
buyRevertStrict(sender, s, amt, value) ==
    IF ~cryptocurrencies[s].isActive THEN "Cryptocurrency not supported"
    ELSE IF ~(amt > 0) THEN "Amount must be greater than 0"
    ELSE IF ~(value > (amt * cryptocurrencies[s].price) \div WEI)
        THEN "Insufficient ETH sent"
    ELSE ""

\* The require() that stops buyCryptocurrency, "" when none does.
buyRevert(sender, s, amt, value) ==
    IF ~cryptocurrencies[s].isActive THEN "Cryptocurrency not supported"
    ELSE IF ~(amt > 0) THEN "Amount must be greater than 0"
    ELSE IF ~(value >= totalCost(s, amt)) THEN "Insufficient ETH sent"
    ELSE ""

\* sellCryptocurrency without its reserve require.
sellRevertNoReserve(sender, s, amt) ==
    IF ~cryptocurrencies[s].isActive THEN "Cryptocurrency not supported"
    ELSE IF ~(amt > 0) THEN "Amount must be greater than 0"
    ELSE IF ~(userBalances[sender][s] >= amt)
        THEN "Insufficient cryptocurrency balance"
    ELSE ""

\* sellCryptocurrency without its balance require.
sellRevertNoBalance(sender, s, amt) ==
    IF ~cryptocurrencies[s].isActive THEN "Cryptocurrency not supported"
    ELSE IF ~(amt > 0) THEN "Amount must be greater than 0"
    ELSE IF ~(reserve >= totalCost(s, amt)) THEN "Contract has insufficient ETH"
    ELSE ""

\* The require() that stops sellCryptocurrency, "" when none does.
sellRevert(sender, s, amt) ==
    IF ~cryptocurrencies[s].isActive THEN "Cryptocurrency not supported"
    ELSE IF ~(amt > 0) THEN "Amount must be greater than 0"
    ELSE IF ~(userBalances[sender][s] >= amt)
        THEN "Insufficient cryptocurrency balance"
    ELSE IF ~(reserve >= totalCost(s, amt)) THEN "Contract has insufficient ETH"
    ELSE ""

Transaction(id, sender, s, amt, type) ==
    [id |-> id, user |-> sender, cryptoSymbol |-> s, amount |-> amt,
     price |-> cryptocurrencies[s].price, transactionType |-> type,
     completed |-> TRUE]

\* A buy whose record is filed in the owner's list.
contractBuyMisfiled(sender, s, amt, value) ==
    /\ transactionCount' = transactionCount + 1
    /\ transactions' = Append(transactions,
                              Transaction(transactionCount + 1, sender, s, amt, "buy"))
    /\ userTransactions' = [userTransactions EXCEPT
                                ![owner] = Append(@, transactionCount + 1)]
    /\ userBalances' = [userBalances EXCEPT ![sender][s] = @ + amt]
    /\ reserve' = reserve + totalCost(s, amt)
    /\ eth' = [eth EXCEPT ![sender] = @ - value + (value - totalCost(s, amt))]
    /\ UNCHANGED <<cryptocurrencies, owner, supportedCryptos>>

\* A buy without the refund: the contract keeps the whole of msg.value.
contractBuyKeepingChange(sender, s, amt, value) ==
    /\ transactionCount' = transactionCount + 1
    /\ transactions' = Append(transactions,
                              Transaction(transactionCount + 1, sender, s, amt, "buy"))
    /\ userTransactions' = [userTransactions EXCEPT
                                ![sender] = Append(@, transactionCount + 1)]
    /\ userBalances' = [userBalances EXCEPT ![sender][s] = @ + amt]
    /\ reserve' = reserve + value
    /\ eth' = [eth EXCEPT ![sender] = @ - value]
    /\ UNCHANGED <<cryptocurrencies, owner, supportedCryptos>>

\* A buy that sends the whole of msg.value back.
contractBuyUnreserved(sender, s, amt, value) ==
    /\ transactionCount' = transactionCount + 1
    /\ transactions' = Append(transactions,
                              Transaction(transactionCount + 1, sender, s, amt, "buy"))
    /\ userTransactions' = [userTransactions EXCEPT
                                ![sender] = Append(@, transactionCount + 1)]
    /\ userBalances' = [userBalances EXCEPT ![sender][s] = @ + amt]
    /\ reserve' = reserve
    /\ eth' = eth
    /\ UNCHANGED <<cryptocurrencies, owner, supportedCryptos>>

\* The state change of a buy that does not revert; the refund leaves the
\* contract holding exactly totalCost of msg.value.
contractBuy(sender, s, amt, value) ==
    /\ transactionCount' = transactionCount + 1
    /\ transactions' = Append(transactions,
                              Transaction(transactionCount + 1, sender, s, amt, "buy"))
    /\ userTransactions' = [userTransactions EXCEPT
                                ![sender] = Append(@, transactionCount + 1)]
    /\ userBalances' = [userBalances EXCEPT ![sender][s] = @ + amt]
    /\ reserve' = reserve + totalCost(s, amt)
    /\ eth' = [eth EXCEPT ![sender] = @ - value + (value - totalCost(s, amt))]
    /\ UNCHANGED <<cryptocurrencies, owner, supportedCryptos>>

\* A sell that leaves the transaction counter as it is.
contractSellUncounted(sender, s, amt) ==
    /\ transactionCount' = transactionCount
    /\ transactions' = Append(transactions,
                              Transaction(transactionCount + 1, sender, s, amt, "sell"))
    /\ userTransactions' = [userTransactions EXCEPT
                                ![sender] = Append(@, transactionCount + 1)]
    /\ userBalances' = [userBalances EXCEPT ![sender][s] = @ - amt]
    /\ reserve' = reserve - totalCost(s, amt)
    /\ eth' = [eth EXCEPT ![sender] = @ + totalCost(s, amt)]
    /\ UNCHANGED <<cryptocurrencies, owner, supportedCryptos>>

\* A sell that leaves the seller's balance as it is.
contractSellUndebited(sender, s, amt) ==
    /\ transactionCount' = transactionCount + 1
    /\ transactions' = Append(transactions,
                              Transaction(transactionCount + 1, sender, s, amt, "sell"))
    /\ userTransactions' = [userTransactions EXCEPT
                                ![sender] = Append(@, transactionCount + 1)]
    /\ userBalances' = userBalances
    /\ reserve' = reserve - totalCost(s, amt)
    /\ eth' = [eth EXCEPT ![sender] = @ + totalCost(s, amt)]
    /\ UNCHANGED <<cryptocurrencies, owner, supportedCryptos>>

\* The state change of a sell that does not revert.
contractSell(sender, s, amt) ==
    /\ transactionCount' = transactionCount + 1
    /\ transactions' = Append(transactions,
                              Transaction(transactionCount + 1, sender, s, amt, "sell"))
    /\ userTransactions' = [userTransactions EXCEPT
                                ![sender] = Append(@, transactionCount + 1)]
    /\ userBalances' = [userBalances EXCEPT ![sender][s] = @ - amt]
    /\ reserve' = reserve - totalCost(s, amt)
    /\ eth' = [eth EXCEPT ![sender] = @ + totalCost(s, amt)]
    /\ UNCHANGED <<cryptocurrencies, owner, supportedCryptos>>

\* A modifier that lets every account through.
onlyOwnerAnyone(sender) == ""

\* modifier onlyOwner
onlyOwner(sender) ==
    IF sender # owner THEN "Only owner can perform this action" ELSE ""

\* addCryptocurrency without its already-exists require.
addRevertNoDuplicate(sender, s, price) ==
    IF onlyOwner(sender) # "" THEN onlyOwner(sender)
    ELSE IF ~(price > 0) THEN "Price must be greater than 0"
    ELSE ""

\* The require() that stops addCryptocurrency, "" when none does.
addRevert(sender, s, price) ==
    IF onlyOwner(sender) # "" THEN onlyOwner(sender)
    ELSE IF cryptocurrencies[s].isActive THEN "Cryptocurrency already exists"
    ELSE IF ~(price > 0) THEN "Price must be greater than 0"
    ELSE ""

\* updateCryptoPrice without its price require.
updateRevertAnyPrice(sender, s, price) ==
    IF onlyOwner(sender) # "" THEN onlyOwner(sender)
    ELSE IF ~cryptocurrencies[s].isActive THEN "Cryptocurrency not supported"
    ELSE ""

\* The require() that stops updateCryptoPrice, "" when none does.
updateRevert(sender, s, price) ==
    IF onlyOwner(sender) # "" THEN onlyOwner(sender)
    ELSE IF ~cryptocurrencies[s].isActive THEN "Cryptocurrency not supported"
    ELSE IF ~(price > 0) THEN "Price must be greater than 0"
    ELSE ""

\* The require() that stops depositETH, "" when none does.
depositRevert(sender, value) ==
    IF onlyOwner(sender) # "" THEN onlyOwner(sender)
    ELSE IF ~(value > 0) THEN "Must send ETH"
    ELSE ""

\* withdrawETH without its reserve require.
withdrawRevertNoReserve(sender, amt) ==
    IF onlyOwner(sender) # "" THEN onlyOwner(sender) ELSE ""

\* The require() that stops withdrawETH, "" when none does.
withdrawRevert(sender, amt) ==
    IF onlyOwner(sender) # "" THEN onlyOwner(sender)
    ELSE IF ~(amt <= reserve) THEN "Insufficient contract balance"
    ELSE ""

\* A call that reverts: the EVM undoes all of it, the value sent included.
Reverted(c) == last' = c /\ UNCHANGED ledgerVars

\* What a direct call leaves alone: the server and the senders' nonces.
serverVars == <<contract, nonce, journal, procs, out, trip, view, oracleVars, reply>>

\* The transactions accounts send to the contract themselves. A transaction
\* carries no more value than its sender holds, and D.records caps the log.
buyCryptocurrency(D) ==
    /\ \E a \in D.callers, s \in D.symbols, amt \in D.amounts, v \in D.values :
        /\ v <= eth[a]
        /\ IF buyRevert(a, s, amt, v) # ""
           THEN Reverted(Call("buy", a, s, amt, v, buyRevert(a, s, amt, v)))
           ELSE /\ transactionCount < D.records
                /\ contractBuy(a, s, amt, v)
                /\ last' = Call("buy", a, s, amt, v, "")
    /\ UNCHANGED serverVars

sellCryptocurrency(D) ==
    /\ \E a \in D.callers, s \in D.symbols, amt \in D.amounts :
        IF sellRevert(a, s, amt) # ""
        THEN Reverted(Call("sell", a, s, amt, 0, sellRevert(a, s, amt)))
        ELSE /\ transactionCount < D.records
             /\ contractSell(a, s, amt)
             /\ last' = Call("sell", a, s, amt, 0, "")
    /\ UNCHANGED serverVars

addCryptocurrency(D) ==
    /\ \E a \in D.callers, s \in D.symbols, price \in D.prices :
        IF addRevert(a, s, price) # ""
        THEN Reverted(Call("add", a, s, price, 0, addRevert(a, s, price)))
        ELSE /\ cryptocurrencies' = [cryptocurrencies EXCEPT
                    ![s] = [price |-> price, isActive |-> TRUE]]
             /\ supportedCryptos' = Append(supportedCryptos, s)
             /\ last' = Call("add", a, s, price, 0, "")
             /\ UNCHANGED <<userBalances, transactionCount, transactions, reserve,
                            owner, userTransactions, eth>>
    /\ UNCHANGED serverVars

\* A price update that also reprices the records of the symbol, and a
\* receive that hands the contract to its sender.
updateCryptoPriceRepricing(D) ==
    /\ \E a \in D.callers, s \in D.symbols, price \in D.prices :
        IF updateRevert(a, s, price) # ""
        THEN Reverted(Call("update", a, s, price, 0, updateRevert(a, s, price)))
        ELSE /\ cryptocurrencies' = [cryptocurrencies EXCEPT ![s].price = price]
             /\ transactions' = [i \in 1..Len(transactions) |->
                    IF transactions[i].cryptoSymbol = s
                    THEN [transactions[i] EXCEPT !.price = price]
                    ELSE transactions[i]]
             /\ last' = Call("update", a, s, price, 0, "")
             /\ UNCHANGED <<userBalances, transactionCount, reserve,
                            owner, supportedCryptos, userTransactions, eth>>
    /\ UNCHANGED serverVars

receiveTakingOwnership(D) ==
    /\ \E a \in D.callers, v \in D.values :
        /\ v <= eth[a]
        /\ reserve' = reserve + v
        /\ eth' = [eth EXCEPT ![a] = @ - v]
        /\ owner' = a
        /\ last' = Call("receive", a, "", 0, v, "")
        /\ UNCHANGED <<cryptocurrencies, userBalances, transactionCount,
                       transactions, supportedCryptos, userTransactions>>
    /\ UNCHANGED serverVars

updateCryptoPrice(D) ==
    /\ \E a \in D.callers, s \in D.symbols, price \in D.prices :
        IF updateRevert(a, s, price) # ""
        THEN Reverted(Call("update", a, s, price, 0, updateRevert(a, s, price)))
        ELSE /\ cryptocurrencies' = [cryptocurrencies EXCEPT ![s].price = price]
             /\ last' = Call("update", a, s, price, 0, "")
             /\ UNCHANGED <<userBalances, transactionCount, transactions, reserve,
                            owner, supportedCryptos, userTransactions, eth>>
    /\ UNCHANGED serverVars

depositETH(D) ==
    /\ \E a \in D.callers, v \in D.values :
        /\ v <= eth[a]
        /\ IF depositRevert(a, v) # ""
           THEN Reverted(Call("deposit", a, "", 0, v, depositRevert(a, v)))
           ELSE /\ reserve' = reserve + v
                /\ eth' = [eth EXCEPT ![a] = @ - v]
                /\ last' = Call("deposit", a, "", 0, v, "")
                /\ UNCHANGED <<cryptocurrencies, userBalances, transactionCount,
                               transactions, owner, supportedCryptos,
                               userTransactions>>
    /\ UNCHANGED serverVars

withdrawETH(D) ==
    /\ \E a \in D.callers, amt \in D.values :
        IF withdrawRevert(a, amt) # ""
        THEN Reverted(Call("withdraw", a, "", amt, 0, withdrawRevert(a, amt)))
        ELSE /\ reserve' = reserve - amt
             /\ eth' = [eth EXCEPT ![owner] = @ + amt]
             /\ last' = Call("withdraw", a, "", amt, 0, "")
             /\ UNCHANGED <<cryptocurrencies, userBalances, transactionCount,
                            transactions, owner, supportedCryptos,
                            userTransactions>>
    /\ UNCHANGED serverVars

\* receive(): plain ether sent to the contract
receive(D) ==
    /\ \E a \in D.callers, v \in D.values :
        /\ v <= eth[a]
        /\ reserve' = reserve + v
        /\ eth' = [eth EXCEPT ![a] = @ - v]
        /\ last' = Call("receive", a, "", 0, v, "")
        /\ UNCHANGED <<cryptocurrencies, userBalances, transactionCount,
                       transactions, owner, supportedCryptos, userTransactions>>
    /\ UNCHANGED serverVars

\* ------------------------------------------------- the contract's reads
\* A view function called on the contract and how it ended: revert is the
\* reason ("" when the call returned), returns the value it returned.
View(fn, a, s, id, revert, returns) ==
    [fn |-> fn, account |-> a, sym |-> s, id |-> id, revert |-> revert,
     returns |-> returns]

NoView == View("", "", "", 0, "", 0)

\* A slot of the mapping `transactions` that was never written.
ZeroTransaction ==
    [id |-> 0, user |-> "0x0", cryptoSymbol |-> "", amount |-> 0, price |-> 0,
     transactionType |-> "", completed |-> FALSE]

\* modifier cryptoExists
cryptoExists(s) ==
    IF ~cryptocurrencies[s].isActive THEN "Cryptocurrency not supported" ELSE ""

\* A view call changes nothing but what the caller learns.
Viewed(v) ==
    /\ view' = v
    /\ UNCHANGED <<chainVars, contract, journal, procs, out, trip, oracleVars, reply>>

getUserBalance(D) ==
    \E a \in D.accounts, s \in D.symbols :
        Viewed(View("getUserBalance", a, s, 0, "", userBalances[a][s]))

getUserTransactions(D) ==
    \E a \in D.accounts :
        Viewed(View("getUserTransactions", a, "", 0, "", userTransactions[a]))

getTransaction(D) ==
    \E id \in D.ids :
        Viewed(View("getTransaction", "", "", id, "",
                    IF id \in 1..Len(transactions) THEN transactions[id]
                    ELSE ZeroTransaction))

getCryptoPrice(D) ==
    \E s \in D.symbols :
        IF cryptoExists(s) # ""
        THEN Viewed(View("getCryptoPrice", "", s, 0, cryptoExists(s), 0))
        ELSE Viewed(View("getCryptoPrice", "", s, 0, "", cryptocurrencies[s].price))

getSupportedCryptos ==
    Viewed(View("getSupportedCryptos", "", "", 0, "", supportedCryptos))

\* ------------------------------------------------------------- the journal
\* A row that stores the order's value in place of its amount.
RowOfValue(u, s, amt, price, type, hash) ==
    [user_id |-> u, crypto_symbol |-> s, amount |-> amt * price, price |-> price,
     type |-> type, tx_hash |-> hash]

Row(u, s, amt, price, type, hash) ==
    [user_id |-> u, crypto_symbol |-> s, amount |-> amt, price |-> price,
     type |-> type, tx_hash |-> hash]

RECURSIVE SumRows(_, _, _, _)
SumRows(rows, u, s, type) ==
    IF rows = <<>> THEN 0
    ELSE LET r == Head(rows)
         IN (IF r.user_id = u /\ r.crypto_symbol = s /\ r.type = type
             THEN r.amount ELSE 0) + SumRows(Tail(rows), u, s, type)

\* SELECT SUM(buy) bought, SUM(sell) sold ...; balance = bought - sold
JournalBalance(u, s) == SumRows(journal, u, s, "buy") - SumRows(journal, u, s, "sell")

\* --------------------------------------------------- the price oracle (use)
\* binance.service.js: the pairs of supportedPairs
SupportedPairs == {"BTC", "ETH", "ADA", "DOT", "BNB", "XRP", "SOL", "MATIC"}

\* An oracle that supports every symbol.
isSupportedAlways(s) == TRUE

isSupported(s) == toUpperCase(s) \in SupportedPairs

\* ----------------------------------------------------- the price service
\* A price as the service holds it, a decimal string of eight places: its
\* whole part and its fraction in units of 10^-8. A quote as the upstream
\* sends it, a decimal string: its fraction is in units of 10^-9.
Price(whole, frac) == [whole |-> whole, frac |-> frac]
Quote(whole, nano) == [whole |-> whole, nano |-> nano]

\* Map.prototype.get on a symbol the cache does not hold.
NoPrice == Price(-1, 0)

\* What a request to the upstream brings back: a quote, or Down when the
\* request fails (or none is made).
Down == Quote(-1, 0)
Quotes == {Quote(2, 4), Quote(3, 999999995)}
Responses == Quotes \cup {Down}

\* parseFloat(x).toFixed(8) and parseFloat(x).toFixed(2)
toFixed8(q) ==
    LET f == (q.nano + 5) \div 10
    IN IF f = 100000000 THEN Price(q.whole + 1, 0) ELSE Price(q.whole, f)

toFixed2(q) ==
    LET f == (q.nano + 5000000) \div 10000000
    IN IF f = 100 THEN Price(q.whole + 1, 0) ELSE Price(q.whole, f)

\* this.supportedPairs[symbol.toUpperCase()]; "" is undefined
binancePair(s) ==
    CASE toUpperCase(s) = "BTC" -> "BTCUSDT"
      [] toUpperCase(s) = "ETH" -> "ETHUSDT"
      [] toUpperCase(s) = "ADA" -> "ADAUSDT"
      [] toUpperCase(s) = "DOT" -> "DOTUSDT"
      [] toUpperCase(s) = "BNB" -> "BNBUSDT"
      [] toUpperCase(s) = "XRP" -> "XRPUSDT"
      [] toUpperCase(s) = "SOL" -> "SOLUSDT"
      [] toUpperCase(s) = "MATIC" -> "MATICUSDT"
      [] OTHER -> ""

\* Object.keys(this.supportedPairs).find(key => supportedPairs[key] === pair)
cryptoSymbolOf(pair) ==
    IF \E k \in SupportedPairs : binancePair(k) = pair
    THEN CHOOSE k \in SupportedPairs : binancePair(k) = pair
    ELSE ""

getFallbackPrice(s) ==
    CASE toUpperCase(s) = "BTC" -> Price(43250, 0)
      [] toUpperCase(s) = "ETH" -> Price(2650, 0)
      [] toUpperCase(s) = "ADA" -> Price(0, 38500000)
      [] toUpperCase(s) = "DOT" -> Price(5, 45000000)
      [] toUpperCase(s) = "BNB" -> Price(310, 50000000)
      [] toUpperCase(s) = "XRP" -> Price(0, 52000000)
      [] toUpperCase(s) = "SOL" -> Price(98, 75000000)
      [] toUpperCase(s) = "MATIC" -> Price(0, 85000000)
      [] OTHER -> Price(1, 0)

getFallbackPrices == [s \in SupportedPairs |-> getFallbackPrice(s)]

\* this.priceCache.get(symbol.toUpperCase())
cached(s) ==
    IF toUpperCase(s) \in DOMAIN priceCache THEN priceCache[toUpperCase(s)]
    ELSE NoPrice

\* A call of the service and how it ended: quote is what the upstream
\* answered to the call's last request, error the message of the exception
\* the caller gets ("" when the call returns), pending is TRUE while
\* get24hrStats waits for getPrice.
Answer(op, s, q, error, returns, pending) ==
    [op |-> op, sym |-> s, quote |-> q, error |-> error, returns |-> returns,
     pending |-> pending]

NoAnswer == Answer("", "", Down, "", NoPrice, FALSE)

\* A getPrice whose catch goes straight to the fallback table.
getPriceReturnsFallback(s, r) ==
    IF binancePair(s) # "" /\ r # Down THEN toFixed8(r)
    ELSE getFallbackPrice(s)

\* What getPrice returns when the upstream answers r: the throw for a symbol
\* without a pair is inside the try, so it ends in the catch as a failed
\* request does.
getPriceReturns(s, r) ==
    IF binancePair(s) # "" /\ r # Down THEN toFixed8(r)
    ELSE IF cached(s) # NoPrice THEN cached(s)
    ELSE getFallbackPrice(s)

\* The cache getPrice leaves.
getPriceCache(s, r) ==
    IF binancePair(s) # "" /\ r # Down
    THEN [priceCache EXCEPT ![toUpperCase(s)] = toFixed8(r)]
    ELSE priceCache

\* What the service leaves alone.
ledgers == <<chainVars, contract, journal, procs, out, trip, view, reply>>

\* getPrice has one await, the request; before it nothing is read or
\* written, so the call is one step taken when the response arrives.
getPrice(D) ==
    \E s \in D.symbols, r \in Responses :
        /\ ~answer.pending
        /\ priceCache' = getPriceCache(s, r)
        /\ answer' = Answer("getPrice", s, IF binancePair(s) # "" THEN r ELSE Down,
                            "", getPriceReturns(s, r), FALSE)
        /\ UNCHANGED <<stream, ledgers>>

\* The catch of getAllPrices: the cache's entries, the fallback table when
\* the cache has none.
getAllPricesDegraded ==
    LET cachedPrices == [s \in {k \in DOMAIN priceCache : priceCache[k] # NoPrice}
                            |-> priceCache[s]]
    IN IF DOMAIN cachedPrices # {} THEN cachedPrices ELSE getFallbackPrices

\* The batch answers one quote for every pair asked.
getAllPrices ==
    \E r \in Responses :
        /\ ~answer.pending
        /\ IF r # Down
           THEN /\ priceCache' = [s \in SupportedPairs |-> toFixed8(r)]
                /\ answer' = Answer("getAllPrices", "", r, "",
                                    [s \in SupportedPairs |-> toFixed8(r)], FALSE)
           ELSE /\ priceCache' = priceCache
                /\ answer' = Answer("getAllPrices", "", Down, "",
                                    getAllPricesDegraded, FALSE)
        /\ UNCHANGED <<stream, ledgers>>

\* The record get24hrStats returns. The fields of a ticker/24hr response are
\* all taken from one quote r: last price and low r, high r + 1, change and
\* change percent the fraction of r, volume r.
Stats(s, price, change, changePercent, volume, high, low) ==
    [symbol |-> s, price |-> price, change |-> change,
     changePercent |-> changePercent, volume |-> volume, high |-> high,
     low |-> low]

\* A catch that zeroes the high and the low as well.
statsDegradedZeroed(s, currentPrice) ==
    Stats(toUpperCase(s), currentPrice, Price(0, 0), Price(0, 0), Price(0, 0),
          Price(0, 0), Price(0, 0))

\* The catch of get24hrStats once getPrice has answered.
statsDegraded(s, currentPrice) ==
    Stats(toUpperCase(s), currentPrice, Price(0, 0), Price(0, 0), Price(0, 0),
          currentPrice, currentPrice)

\* get24hrStats up to its request; a failed request, or a symbol without a
\* pair, leaves the call waiting for getPrice.
get24hrStats(D) ==
    \E s \in D.symbols, r \in Responses :
        /\ ~answer.pending
        /\ IF binancePair(s) # "" /\ r # Down
           THEN answer' = Answer("get24hrStats", s, r, "",
                    Stats(toUpperCase(s), toFixed8(r), toFixed8(Quote(0, r.nano)),
                          toFixed2(Quote(0, r.nano)), toFixed2(r),
                          toFixed8(Quote(r.whole + 1, r.nano)), toFixed8(r)),
                    FALSE)
           ELSE answer' = Answer("get24hrStats", s, Down, "", NoPrice, TRUE)
        /\ UNCHANGED <<priceCache, stream, ledgers>>

\* The catch of get24hrStats: await this.getPrice(symbol), then the record.
statsPrice ==
    \E r \in Responses :
        /\ answer.pending
        /\ priceCache' = getPriceCache(answer.sym, r)
        /\ answer' = Answer("get24hrStats", answer.sym,
                            IF binancePair(answer.sym) # "" THEN r ELSE Down, "",
                            statsDegraded(answer.sym, getPriceReturns(answer.sym, r)),
                            FALSE)
        /\ UNCHANGED <<stream, ledgers>>

\* What onPriceUpdate is called with, and the cache entry it finds (cached).
Tick(s, price, found) == [symbol |-> s, price |-> price, cached |-> found]

NoTick == Tick("", NoPrice, NoPrice)

\* A message of the socket: text that JSON.parse rejects (json = FALSE), or
\* an event e for pair s with last price c.
Frame(json, e, s, c) == [json |-> json, e |-> e, s |-> s, c |-> c]

NoFrame == Frame(FALSE, "", "", Down)

\* The subscription: the socket's state, the pairs it was opened for, the
\* last message, the call of onPriceUpdate that message made (NoTick: none)
\* and whether a message was dropped since the socket opened.
Stream(state, pairs, frame, called, dropped) ==
    [state |-> state, pairs |-> pairs, frame |-> frame, called |-> called,
     dropped |-> dropped]

NoStream == Stream("none", {}, NoFrame, NoTick, FALSE)

startPriceStream(D) ==
    \E symbols \in D.subscriptions :
        LET binancePairs == {binancePair(s) : s \in symbols} \ {""}
        IN /\ stream.state # "open"
           /\ IF binancePairs = {}
              THEN stream' = stream
              ELSE stream' = Stream("open", binancePairs, NoFrame, NoTick, FALSE)
           /\ UNCHANGED <<priceCache, answer, ledgers>>

\* A handler that calls onPriceUpdate before it writes the cache.
tickerCallbackFirst(s, price) ==
    [cache |-> [priceCache EXCEPT ![s] = price],
     called |-> Tick(s, price, priceCache[s])]

\* The handler's work on a ticker of a pair it knows: the cache entry is
\* set, then onPriceUpdate is called.
ticker(s, price) ==
    [cache |-> [priceCache EXCEPT ![s] = price],
     called |-> Tick(s, price, price)]

Frames(D) ==
    {Frame(FALSE, "", "", Down)} \cup
    {Frame(TRUE, e, s, c) : e \in D.events, s \in stream.pairs \cup D.pairs,
                            c \in Quotes}

\* ws.on('message')
onMessage(D) ==
    \E f \in Frames(D) :
        /\ stream.state = "open"
        /\ IF f.json /\ f.e = "24hrTicker" /\ cryptoSymbolOf(f.s) # ""
           THEN LET done == ticker(cryptoSymbolOf(f.s), toFixed8(f.c))
                IN /\ priceCache' = done.cache
                   /\ stream' = [stream EXCEPT !.frame = f, !.called = done.called]
           ELSE /\ priceCache' = priceCache
                /\ stream' = [stream EXCEPT !.frame = f, !.called = NoTick,
                                            !.dropped = TRUE]
        /\ UNCHANGED <<answer, ledgers>>

\* ws.on('close')
onClose ==
    /\ stream.state = "open"
    /\ stream' = [stream EXCEPT !.state = "closed"]
    /\ UNCHANGED <<priceCache, answer, ledgers>>

\* ------------------------------------------------------ the read endpoints
\* Number.prototype.toFixed and parseFloat meet "NaN" when a price is
\* undefined; money is kept in cents, shares in hundredths of a percent.
NaN == -1

\* Object.keys(this.supportedPairs), in the order of the literal
getSupportedCryptosList ==
    <<"BTC", "ETH", "ADA", "DOT", "BNB", "XRP", "SOL", "MATIC">>

\* A read request and its response: pc is "idle" once it is answered (status
\* is the HTTP status then); quote is what the upstream answered to the
\* request's price fetch and origin where the price service then took the
\* price from ("live": that answer, "cached": the cache, "fallback": the
\* table of constants); price, stats and source are the fields of a price
\* response; prices is the table getAllPrices returned, next the symbol the
\* loop of getUserBalances reads next, holdings its cryptoBalances.
Reply(op, pc, u, s) ==
    [op |-> op, pc |-> pc, user |-> u, sym |-> s, status |-> 0, quote |-> Down,
     origin |-> "", price |-> NoPrice, stats |-> NoPrice, source |-> "",
     prices |-> <<>>, next |-> 0, holdings |-> <<>>, total |-> 0]

NoReply == Reply("", "idle", "u1", "")

\* allPrices[crypto]
priceIn(prices, s) == IF s \in DOMAIN prices THEN prices[s] ELSE NoPrice

\* (balance * parseFloat(price)).toFixed(2), in cents
valueOf(balance, price) ==
    IF price = NoPrice THEN NaN
    ELSE balance * price.whole * 100 + (balance * price.frac + 500000) \div 1000000

\* totalValue += parseFloat(value)
plus(total, value) == IF total = NaN \/ value = NaN THEN NaN ELSE total + value

\* ((parseFloat(h.value) / totalValue) * 100).toFixed(2) when totalValue > 0,
\* '0.00' otherwise: in hundredths of a percent, rounded to the nearest.
percentage(value, total) ==
    IF total = NaN \/ ~(total > 0) THEN 0
    ELSE LET whole == (value * 100) \div total
             rest == (value * 100) % total
         IN whole * 100 + (rest * 100 + total \div 2) \div total

Holding(s, balance, price) ==
    [symbol |-> s, balance |-> balance, price |-> price,
     value |-> valueOf(balance, price), percentage |-> 0, source |-> "binance-api"]

\* What the read endpoints leave alone.
stores == <<chainVars, contract, journal, procs, out, trip, view>>

\* getUserBalances of the real-time controller, up to its first await that
\* matters (getAccountBalance has its own catch and feeds no other field).
BalancesRequest(D) ==
    \E u \in D.users :
        /\ reply.pc = "idle"
        /\ reply' = Reply("balances", "prices", u, "")
        /\ UNCHANGED <<stores, oracleVars>>

\* await binanceService.getAllPrices()
BalancesPrices ==
    \E r \in Responses :
        /\ reply.op = "balances" /\ reply.pc = "prices"
        /\ IF r # Down
           THEN /\ priceCache' = [s \in SupportedPairs |-> toFixed8(r)]
                /\ reply' = [reply EXCEPT !.pc = "sum", !.next = 1, !.quote = r,
                                !.prices = [s \in SupportedPairs |-> toFixed8(r)]]
           ELSE /\ priceCache' = priceCache
                /\ reply' = [reply EXCEPT !.pc = "sum", !.next = 1,
                                !.prices = getAllPricesDegraded]
        /\ UNCHANGED <<stores, stream, answer>>

\* balances.forEach(h => h.percentage = ...) and the 200 response
BalancesRespond(r) ==
    [r EXCEPT !.pc = "idle", !.status = 200, !.next = 0,
              !.holdings = [i \in 1..Len(r.holdings) |->
                    [r.holdings[i] EXCEPT
                        !.percentage = percentage(r.holdings[i].value, r.total)]]]

\* if (balance > 0)
holds(balance) == balance > 0

\* One turn of the loop: the SELECT of one symbol and what is made of its
\* sums; a throw of the SELECT ends the request with 500.
BalancesSum ==
    LET s == getSupportedCryptosList[reply.next]
        balance == JournalBalance(reply.user, s)
        h == Holding(s, balance, priceIn(reply.prices, s))
        summed == IF holds(balance)
                  THEN [reply EXCEPT !.holdings = Append(@, h),
                                     !.total = plus(@, h.value)]
                  ELSE reply
    IN /\ reply.op = "balances" /\ reply.pc = "sum"
       /\ \E dbUp \in BOOLEAN :
            reply' = IF ~dbUp
                     THEN [reply EXCEPT !.pc = "idle", !.status = 500, !.next = 0,
                                        !.holdings = <<>>, !.total = 0]
                     ELSE IF reply.next = Len(getSupportedCryptosList)
                     THEN BalancesRespond(summed)
                     ELSE [summed EXCEPT !.next = @ + 1]
       /\ UNCHANGED <<stores, oracleVars>>

\* Where getPrice takes the price of s from when the upstream answers r.
originOf(s, r) ==
    IF binancePair(s) # "" /\ r # Down THEN "live"
    ELSE IF cached(s) # NoPrice THEN "cached"
    ELSE "fallback"

\* getCryptocurrencyPrice up to its first await: a missing symbol and one
\* the service does not support are answered 400.
PriceRequest(D) ==
    \E s \in D.symbols :
        /\ reply.pc = "idle"
        /\ reply' = IF s = "" \/ ~isSupported(s)
                    THEN [Reply("price", "idle", "u1", s) EXCEPT !.status = 400]
                    ELSE Reply("price", "price", "u1", s)
        /\ UNCHANGED <<stores, oracleVars>>

\* await binanceService.getPrice(symbol.toUpperCase())
PriceFetch ==
    \E r \in Responses :
        LET s == toUpperCase(reply.sym)
        IN /\ reply.op = "price" /\ reply.pc = "price"
           /\ priceCache' = getPriceCache(s, r)
           /\ reply' = [reply EXCEPT !.pc = "stats", !.quote = r,
                                     !.origin = originOf(s, r),
                                     !.price = getPriceReturns(s, r)]
           /\ UNCHANGED <<stores, stream, answer>>

\* res.status(200).json({... price, stats, source: 'binance-api'})
PriceRespond(r, stats) ==
    [r EXCEPT !.pc = "idle", !.status = 200, !.stats = stats,
              !.source = "binance-api"]

\* await binanceService.get24hrStats(symbol.toUpperCase()), up to its
\* request: a failed one leaves the call waiting for getPrice.
StatsFetch ==
    \E r \in Responses :
        LET s == toUpperCase(reply.sym)
        IN /\ reply.op = "price" /\ reply.pc = "stats"
           /\ reply' = IF r # Down
                       THEN PriceRespond(reply,
                                Stats(s, toFixed8(r), toFixed8(Quote(0, r.nano)),
                                      toFixed2(Quote(0, r.nano)), toFixed2(r),
                                      toFixed8(Quote(r.whole + 1, r.nano)),
                                      toFixed8(r)))
                       ELSE [reply EXCEPT !.pc = "statsPrice"]
           /\ UNCHANGED <<stores, oracleVars>>

\* The catch of get24hrStats inside the request, and the response.
StatsPriceFetch ==
    \E r \in Responses :
        LET s == toUpperCase(reply.sym)
        IN /\ reply.op = "price" /\ reply.pc = "statsPrice"
           /\ priceCache' = getPriceCache(s, r)
           /\ reply' = PriceRespond(reply, statsDegraded(s, getPriceReturns(s, r)))
           /\ UNCHANGED <<stores, stream, answer>>

\* getSupportedCryptocurrencies up to its await
CryptosRequest ==
    /\ reply.pc = "idle"
    /\ reply' = Reply("cryptocurrencies", "prices", "u1", "")
    /\ UNCHANGED <<stores, oracleVars>>

\* await binanceService.getAllPrices() and the response: every symbol of
\* the service with allPrices[crypto] || '0.00000000'. getAllPrices does
\* not throw, so the catch with source 'fallback' is never entered.
CryptosPrices ==
    \E r \in Responses :
        LET allPrices == IF r # Down THEN [s \in SupportedPairs |-> toFixed8(r)]
                         ELSE getAllPricesDegraded
            anyCached == \E s \in SupportedPairs : priceCache[s] # NoPrice
        IN /\ reply.op = "cryptocurrencies" /\ reply.pc = "prices"
           /\ priceCache' = IF r # Down THEN allPrices ELSE priceCache
           /\ reply' = [reply EXCEPT
                    !.pc = "idle", !.status = 200, !.quote = r,
                    !.origin = IF r # Down THEN "live"
                               ELSE IF anyCached THEN "cached" ELSE "fallback",
                    !.prices = [s \in SupportedPairs |->
                                    IF priceIn(allPrices, s) # NoPrice
                                    THEN priceIn(allPrices, s) ELSE Price(0, 0)],
                    !.source = "binance-api"]
           /\ UNCHANGED <<stores, stream, answer>>

\* ------------------------------------------------------ the order handlers
\* A slot's record. result is the chain wrapper's result ("" while the
\* wrapper has not returned, "ok" for success: true, otherwise the error
\* message of success: false); hash is the receipt's transactionHash, named
\* here by the id of the record the transaction wrote (0: none); calls are
\* the external calls the request has made; wrote is the position of the
\* journal row the request inserted (0: none).
Idle ==
    [pc |-> "idle", op |-> "", user |-> "u1", sym |-> "", amount |-> 0,
     ethValue |-> 0, balance |-> 0, price |-> 0, txNonce |-> 0, result |-> "",
     hash |-> 0, status |-> 0, message |-> "", calls |-> {}, wrote |-> 0]

InFlight == Cardinality({q \in Procs : procs[q].pc # "idle"})

\* A slot takes a new request when it is free and the bound leaves room.
Free(p) ==
    /\ procs[p].pc = "idle"
    /\ Len(journal) + InFlight < MaxOrders
    /\ nonce[Signer] + InFlight < MaxOrders

\* res.status(code).json({success: code = 200, message}): the request as it
\* ends
Respond(r, code, msg) ==
    [r EXCEPT !.pc = "done", !.status = code, !.message = msg,
              !.balance = 0, !.txNonce = 0]

\* Slot p moves on to r: a request that has been answered leaves its slot.
Move(p, r) ==
    IF r.pc = "done"
    THEN procs' = [procs EXCEPT ![p] = Idle] /\ out' = r
    ELSE procs' = [procs EXCEPT ![p] = r] /\ out' = Idle

\* `!x` of a request field: a missing or empty string, a missing or zero number
noString(x) == x = ""
noNumber(x) == x = 0

\* The synchronous head of buyCryptocurrency: "" when the request passes.
buyInvalid(s, amount, ethValue) ==
    IF noString(s) \/ noNumber(amount) \/ noNumber(ethValue)
        THEN "Please provide cryptoSymbol, amount, and ethValue"
    ELSE IF amount <= 0 \/ ethValue <= 0
        THEN "Amount and ethValue must be greater than 0"
    ELSE IF ~isSupported(s) THEN "is not supported"
    ELSE ""

\* The synchronous head of sellCryptocurrency: "" when the request passes.
sellInvalid(s, amount) ==
    IF noString(s) \/ noNumber(amount) \/ amount <= 0
        THEN "Please provide valid cryptoSymbol and amount"
    ELSE IF ~isSupported(s) THEN "is not supported"
    ELSE ""

\* A handler that never goes to the contract.
callsContractNever(s) == FALSE

\* cryptoSymbol !== 'ETH' && cryptoSymbol !== 'BTC'
callsContract(s) == s # "ETH" /\ s # "BTC"

\* A handler that ignores the wrapper's result.
rejectedNever(result) == FALSE

\* blockchainResult && !blockchainResult.success
rejected(result) == result # "" /\ result # "ok"

\* A sell without the pre-flight check, and one whose check is off by one.
insufficientNever(balance, amount) == FALSE
insufficientOffByOne(balance, amount) == balance + 1 < amount

\* balance < parseFloat(amount)
insufficient(balance, amount) == balance < amount

BuyRequest(p, D) ==
    /\ Free(p)
    /\ \E u \in D.users, s \in D.symbols, a \in D.amounts, v \in D.values :
        LET r == [Idle EXCEPT !.op = "buy", !.user = u, !.sym = s,
                              !.amount = a, !.ethValue = v]
            bad == buyInvalid(s, a, v)
        IN Move(p,
                        IF bad # "" THEN Respond(r, 400, bad)
                        ELSE [r EXCEPT !.pc = "price"])
    /\ UNCHANGED <<contract, chainVars, journal>>

SellRequest(p, D) ==
    /\ Free(p)
    /\ \E u \in D.users, s \in D.symbols, a \in D.amounts :
        LET r == [Idle EXCEPT !.op = "sell", !.user = u, !.sym = s, !.amount = a]
            bad == sellInvalid(s, a)
        IN Move(p,
                        IF bad # "" THEN Respond(r, 400, bad)
                        ELSE [r EXCEPT !.pc = "read"])
    /\ UNCHANGED <<contract, chainVars, journal>>

\* sell: the SELECT of the pre-flight check and the check itself
SellRead(p) ==
    LET r == procs[p]
        c == [r EXCEPT !.calls = @ \cup {"dbRead"}]
        b == JournalBalance(r.user, toUpperCase(r.sym))
    IN /\ r.pc = "read"
       /\ \E dbUp \in BOOLEAN :
            Move(p,
                IF ~dbUp THEN Respond(c, 500, "Internal server error")
                ELSE IF insufficient(b, r.amount)
                    THEN Respond(c, 400, "Insufficient cryptocurrency balance. Available")
                ELSE [c EXCEPT !.pc = "price", !.balance = b])
       /\ UNCHANGED <<contract, chainVars, journal>>

\* binanceService.getPrice: the ticker's price, the cached one or the
\* fallback constant; it throws in no case.
GetPrice(p, D) ==
    LET r == procs[p]
    IN /\ r.pc = "price"
       /\ \E pr \in D.prices :
            Move(p,
                [r EXCEPT !.calls = @ \cup {"price"}, !.price = pr,
                          !.pc = IF callsContract(r.sym) THEN "estimate" ELSE "write"])
       /\ UNCHANGED <<contract, chainVars, journal>>

\* The handler's code after the wrapper returned: a result that is not a
\* success is answered 400 with the wrapper's error, anything else goes on
\* to the INSERT.
AfterChain(r) ==
    IF rejected(r.result) THEN Respond(r, 400, r.result)
    ELSE [r EXCEPT !.pc = "write"]

\* A wrapper that throws: the handler's catch logs it and goes on.
ChainThrew(r, msg) == [r EXCEPT !.pc = "write"]

\* The wrapper's catch: {success: false, error: error.message}
ChainFailed(r, msg) == AfterChain([r EXCEPT !.result = msg])

\* The contract call as `sender` would make it: its revert reason or "".
revertOf(r, sender) ==
    IF r.op = "buy"
    THEN buyRevert(sender, toUpperCase(r.sym), toWei(r.amount), toWei(r.ethValue))
    ELSE sellRevert(sender, toUpperCase(r.sym), toWei(r.amount))

\* blockchain.js wrapper up to the signed transaction: the contract guard,
\* estimateGas({from: userAddress}) and getTransactionCount(userAddress).
Estimate(p) ==
    LET r == procs[p]
        c == [r EXCEPT !.calls = @ \cup {"chain"}]
        from == wallet_address(r.user)
    IN /\ r.pc = "estimate"
       /\ \E nodeUp \in BOOLEAN :
            Move(p,
                IF ~contract THEN ChainFailed(c, "Contract not initialized")
                ELSE IF ~nodeUp THEN ChainFailed(c, "node unreachable")
                ELSE IF revertOf(r, from) # "" THEN ChainFailed(c, revertOf(r, from))
                ELSE [c EXCEPT !.pc = "send", !.txNonce = nonce[from]])
       /\ UNCHANGED <<contract, chainVars, journal>>

\* sendSignedTransaction: the node takes the transaction of the signing key
\* when its nonce is the signer's next one, and mines it; a reverted
\* transaction is mined too and changes nothing but the nonce. The receipt
\* may be lost on the way back (received = FALSE).
Send(p) ==
    LET r == procs[p]
        s == toUpperCase(r.sym)
    IN /\ r.pc = "send"
       /\ \E nodeUp \in BOOLEAN :
          IF ~nodeUp
          THEN /\ Move(p, ChainFailed(r, "node unreachable"))
               /\ UNCHANGED <<nonce, ledgerVars>>
          ELSE IF r.txNonce # nonce[Signer]
          THEN /\ Move(p, ChainFailed(r, "nonce too low"))
               /\ UNCHANGED <<nonce, ledgerVars>>
          ELSE /\ nonce' = [nonce EXCEPT ![Signer] = @ + 1]
               /\ IF revertOf(r, Signer) # ""
                  THEN /\ Move(p, ChainFailed(r, revertOf(r, Signer)))
                       /\ UNCHANGED ledgerVars
                  ELSE /\ IF r.op = "buy"
                          THEN contractBuy(Signer, s, toWei(r.amount), toWei(r.ethValue))
                          ELSE contractSell(Signer, s, toWei(r.amount))
                       /\ \E received \in BOOLEAN :
                            Move(p,
                                IF received
                                THEN AfterChain([r EXCEPT !.result = "ok",
                                                !.hash = transactionCount + 1])
                                ELSE ChainFailed(r, "receipt not received"))
       /\ UNCHANGED <<contract, journal, last>>

\* db.execute('INSERT INTO transactions ...') and the 200 response; a throw
\* of the INSERT falls to the handler's catch, which answers 500.
JournalWrite(p) ==
    LET r == procs[p]
        c == [r EXCEPT !.calls = @ \cup {"dbWrite"}]
    IN /\ r.pc = "write"
       /\ \E dbUp \in BOOLEAN :
          IF dbUp
          THEN /\ journal' = Append(journal,
                      Row(r.user, toUpperCase(r.sym), r.amount, r.price, r.op, r.hash))
               /\ Move(p,
                      Respond([c EXCEPT !.wrote = Len(journal) + 1], 200, "success"))
          ELSE /\ Move(p, Respond(c, 500, "Internal server error"))
               /\ UNCHANGED journal
       /\ UNCHANGED <<contract, chainVars>>

\* ------------------------------- the sell handler of trading.controller.js
\* transactionHash of the handler's substitute result, `mock_sell_<time>`.
MockHash == -1

\* The synchronous head of the handler: "" when the request passes.
legacySellInvalid(s, amount) ==
    IF noString(s) \/ noNumber(amount) THEN "Please provide cryptoSymbol and amount"
    ELSE IF amount <= 0 THEN "Amount must be greater than 0"
    ELSE ""

\* What `sellCryptocurrency(userWalletAddress, privateKey, symbol, amount)`
\* does inside the handler: the name is the handler itself (the wrapper is
\* imported as blockchainSell), called with a string for req and a string
\* for res. Reading req.body.cryptoSymbol throws, the callee's catch calls
\* res.status on a string and throws again: the call always rejects.
selfCall(req, res) == "TypeError"

LegacySellRequest(p, D) ==
    /\ Free(p)
    /\ \E u \in D.users, s \in D.symbols, a \in D.amounts :
        LET r == [Idle EXCEPT !.op = "sell", !.user = u, !.sym = s, !.amount = a]
            bad == legacySellInvalid(s, a)
        IN Move(p,
                IF bad # "" THEN Respond(r, 400, bad)
                ELSE [r EXCEPT !.pc = "legacyRead"])
    /\ UNCHANGED <<contract, chainVars, journal>>

\* The SELECT of the balance and the check on it.
LegacySellRead(p) ==
    LET r == procs[p]
        c == [r EXCEPT !.calls = @ \cup {"dbRead"}]
        currentBalance == JournalBalance(r.user, toUpperCase(r.sym))
    IN /\ r.pc = "legacyRead"
       /\ \E dbUp \in BOOLEAN :
            Move(p,
                IF ~dbUp THEN Respond(c, 500, "Internal server error")
                ELSE IF currentBalance < r.amount
                    THEN Respond(c, 400, "Insufficient cryptocurrency balance. Available")
                ELSE [c EXCEPT !.pc = "legacyCall", !.balance = currentBalance])
       /\ UNCHANGED <<contract, chainVars, journal>>

\* blockchainResult starts as the mock {success: true, transactionHash:
\* mock_sell_...}; the call in the try replaces it only if it returns. A
\* result that is not a success is answered 400.
LegacySellCall(p) ==
    LET r == procs[p]
        thrown == selfCall(wallet_address(r.user), Signer)
        c == [r EXCEPT !.calls = @ \cup {"self"},
                       !.result = IF thrown # "" THEN "mock" ELSE "ok",
                       !.hash = IF thrown # "" THEN MockHash ELSE 0]
    IN /\ r.pc = "legacyCall"
       /\ Move(p, [c EXCEPT !.pc = "legacyPrice"])
       /\ UNCHANGED <<contract, chainVars, journal>>

\* blockchain.js getCryptoPrice: the contract's price in ether, "0" when the
\* contract is not set, the node does not answer or the symbol is not
\* registered. The INSERT and the response follow (JournalWrite).
LegacySellPrice(p) ==
    LET r == procs[p]
        s == toUpperCase(r.sym)
    IN /\ r.pc = "legacyPrice"
       /\ \E nodeUp \in BOOLEAN :
            Move(p,
                [r EXCEPT !.calls = @ \cup {"chainRead"}, !.pc = "write",
                          !.price = IF contract /\ nodeUp /\ cryptocurrencies[s].isActive
                                    THEN fromWei(cryptocurrencies[s].price) ELSE 0])
       /\ UNCHANGED <<contract, chainVars, journal>>

\* ------------------------------------------------- the effective balance
\* The symbols the handlers keep from the contract.
OffChainOnly == {"ETH", "BTC"}

\* blockchain.js getUserCryptoBalance: the contract's balance in tokens, and
\* "0" when the contract is not set or the node does not answer.
getUserCryptoBalance(a, s, answered) ==
    IF contract /\ answered THEN fromWei(userBalances[a][s]) ELSE 0

\* getUserBalances of trading.controller.js: the on-chain balance of the
\* user's wallet when it is positive, the journal's aggregate otherwise.
finalBalance(u, s, answered) ==
    LET blockchainBalance == getUserCryptoBalance(wallet_address(u), s, answered)
        databaseBalance == JournalBalance(u, s)
    IN IF blockchainBalance > 0 THEN blockchainBalance ELSE databaseBalance

\* The balance of a user in a symbol: finalBalance for a symbol the contract
\* keeps, the journal's aggregate for one the handlers keep from it.
EffectiveBalance(u, s, answered) ==
    IF s \in OffChainOnly THEN JournalBalance(u, s) ELSE finalBalance(u, s, answered)

\* ------------------------------------------------------------ the history
\* trip follows one buy and the next order of the same user: "buying" while
\* the buy runs (before holds the buyer's effective balance of the symbol as
\* it was when the buy was taken, with the chain answering and without),
\* "bought" once it is answered 200, "selling" while a sell of the same
\* user, symbol and amount runs next, "returned" once that sell is answered
\* 200. Orders of other users after the buy leave the trip as it is; anything
\* else ends it.
NoTrip == [stage |-> "none", user |-> "u1", sym |-> "", amount |-> 0,
           before |-> <<0, 0>>]

TripNext(p) ==
    LET r == procs[p]
        n == procs'[p]
        who == IF n.pc # "idle" THEN n.user ELSE out'.user
        s == toUpperCase(n.sym)
    IN trip' =
        IF trip.stage = "bought" /\ who # trip.user THEN trip
        ELSE IF r.pc = "idle" /\ n.pc = "idle" THEN NoTrip
        ELSE IF r.pc = "idle" /\ n.op = "buy"
            THEN [stage |-> "buying", user |-> n.user, sym |-> s,
                  amount |-> n.amount,
                  before |-> <<EffectiveBalance(n.user, s, TRUE),
                               EffectiveBalance(n.user, s, FALSE)>>]
        ELSE IF r.pc = "idle"
            THEN IF trip.stage = "bought" /\ trip.sym = s /\ trip.amount = n.amount
                 THEN [trip EXCEPT !.stage = "selling"]
                 ELSE NoTrip
        ELSE IF n.pc # "idle" THEN trip
        ELSE IF out'.status = 200 /\ trip.stage = "buying"
            THEN [trip EXCEPT !.stage = "bought"]
        ELSE IF out'.status = 200 /\ trip.stage = "selling"
            THEN [trip EXCEPT !.stage = "returned"]
        ELSE NoTrip

\* ------------------------------------------------------- the specifications
Init ==
    /\ contract \in BOOLEAN
    /\ nonce = [a \in Accounts |-> 0]
    /\ cryptocurrencies = [s \in ChainSymbols |->
            [price |-> InitialPrice(s), isActive |-> InitialPrice(s) > 0]]
    /\ userBalances = [a \in Accounts |-> [s \in ChainSymbols |-> 0]]
    /\ transactionCount = 0
    /\ transactions = <<>>
    /\ reserve = 0
    /\ owner = Deployer
    /\ supportedCryptos = <<"BTC", "ETH", "ADA", "DOT">>
    /\ userTransactions = [a \in Accounts |-> <<>>]
    /\ eth = [a \in Accounts |-> Funds]
    /\ last = NoCall
    /\ journal = <<>>
    /\ procs = [p \in Procs |-> Idle]
    /\ out = Idle
    /\ trip = NoTrip
    /\ view = NoView
    /\ priceCache = [s \in SupportedPairs |-> NoPrice]
    /\ stream = NoStream
    /\ answer = NoAnswer
    /\ reply = NoReply

Step(p, D) ==
    \/ BuyRequest(p, D)
    \/ SellRequest(p, D)
    \/ SellRead(p)
    \/ GetPrice(p, D)
    \/ Estimate(p)
    \/ Send(p)
    \/ JournalWrite(p)

\* Requests served concurrently: any slot may move at any time.
Concurrent == Domain({"u1"}, {"XYZ", "ETH", "eth", "ADA"}, {0, 1}, {1}, {1})

Next == (\E p \in Procs : Step(p, Concurrent)) /\ UNCHANGED <<trip, view, oracleVars, reply>>

Spec == Init /\ [][Next]_vars

\* Orders processed one at a time: one slot, each request runs to its
\* response before the next is taken.
Sequential == Domain({"u1"}, {"ETH", "eth", "ADA"}, {1, 2}, {1}, {1})

NextSeq == Step("p1", Sequential) /\ UNCHANGED <<trip, view, oracleVars, reply>>

SpecSeq == Init /\ [][NextSeq]_vars

\* One at a time, by a user whose wallet is the signer's and one whose
\* wallet is not, and with a symbol the contract does not know.
TwoUsers == Domain(Users, {"ETH", "eth", "ADA", "BNB"}, {1}, {1}, {1})

NextUsers == Step("p1", TwoUsers) /\ UNCHANGED <<trip, view, oracleVars, reply>>

SpecUsers == Init /\ [][NextUsers]_vars

\* One at a time, with requests that validation must turn away.
Inputs == Domain({"u1"}, {"", "XYZ", "ETH", "eth", "ADA"}, {-1, 0, 1}, {0, 1}, {1})

NextInputs == Step("p1", Inputs) /\ UNCHANGED <<trip, view, oracleVars, reply>>

SpecInputs == Init /\ [][NextInputs]_vars

\* One at a time under moving prices, with the history of buy-then-sell.
Trips == Domain(Users, {"ETH", "ADA"}, {1}, {1}, Prices)

NextTrip ==
    Step("p1", Trips) /\ TripNext("p1") /\ UNCHANGED <<view, oracleVars, reply>>

SpecTrip == Init /\ [][NextTrip]_vars

\* One at a time, through the handlers above and the sell handler of
\* trading.controller.js: both write the same journal.
Legacy == Domain({"u1"}, {"ETH", "ADA"}, {0, 1}, {1}, {1})

NextLegacy ==
    /\ \/ Step("p1", Legacy)
       \/ LegacySellRequest("p1", Legacy)
       \/ LegacySellRead("p1")
       \/ LegacySellCall("p1")
       \/ LegacySellPrice("p1")
    /\ UNCHANGED <<trip, view, oracleVars, reply>>

SpecLegacy == Init /\ [][NextLegacy]_vars

\* The contract called directly, by its owner and by another account: ADA is
\* registered by the constructor, BNB is not. Amounts are wei of the asset
\* (toWei(1) is one token), values wei of ether.
InitContract ==
    /\ contract = TRUE
    /\ nonce = [a \in Accounts |-> 0]
    /\ cryptocurrencies = [s \in ChainSymbols |->
            [price |-> InitialPrice(s), isActive |-> InitialPrice(s) > 0]]
    /\ userBalances = [a \in Accounts |-> [s \in ChainSymbols |-> 0]]
    /\ transactionCount = 0
    /\ transactions = <<>>
    /\ reserve = 0
    /\ owner = Deployer
    /\ supportedCryptos = <<"BTC", "ETH", "ADA", "DOT">>
    /\ userTransactions = [a \in Accounts |-> <<>>]
    /\ eth = [a \in Accounts |-> Purse]
    /\ last = NoCall
    /\ journal = <<>>
    /\ procs = [p \in Procs |-> Idle]
    /\ out = Idle
    /\ trip = NoTrip
    /\ view = NoView
    /\ priceCache = [s \in SupportedPairs |-> NoPrice]
    /\ stream = NoStream
    /\ answer = NoAnswer
    /\ reply = NoReply

DirectCalls ==
    [callers |-> {"O", "W"}, symbols |-> {"ADA", "BNB"},
     amounts |-> {0, toWei(1) + WEI \div 2},
     values |-> {0, 1, 2}, prices |-> {0, 2}, records |-> MaxRecords]

NextContract ==
    \/ buyCryptocurrency(DirectCalls)
    \/ sellCryptocurrency(DirectCalls)
    \/ addCryptocurrency(DirectCalls)
    \/ updateCryptoPrice(DirectCalls)
    \/ depositETH(DirectCalls)
    \/ withdrawETH(DirectCalls)
    \/ receive(DirectCalls)

SpecContract == InitContract /\ [][NextContract]_vars

\* The contract read as well as written: an account that never traded (S)
\* and ids the log does not hold are among the keys read.
Reads ==
    [callers |-> {"O", "W"}, symbols |-> {"ADA", "BNB"},
     amounts |-> {toWei(1) + WEI \div 2}, values |-> {2}, prices |-> {2},
     accounts |-> Accounts, ids |-> 0..(MaxRecords + 1), records |-> MaxRecords]

NextReads ==
    \/ buyCryptocurrency(Reads)
    \/ addCryptocurrency(Reads)
    \/ getUserBalance(Reads)
    \/ getUserTransactions(Reads)
    \/ getTransaction(Reads)
    \/ getCryptoPrice(Reads)
    \/ getSupportedCryptos

SpecReads == InitContract /\ [][NextReads]_vars

\* Buys and sells alone, sent by two accounts in any order.
Trades ==
    [callers |-> {"O", "W"}, symbols |-> {"ADA", "BNB"},
     amounts |-> {toWei(1) + WEI \div 2}, values |-> {0, 1, 2},
     records |-> MaxRecords + 2]

NextTrades ==
    \/ buyCryptocurrency(Trades)
    \/ sellCryptocurrency(Trades)

SpecTrades == InitContract /\ [][NextTrades]_vars

\* Trades of less than one coin next to trades of more: half a coin of ADA
\* costs less than one wei.
Dust ==
    [callers |-> {"O", "W"}, symbols |-> {"ADA"},
     amounts |-> {WEI \div 2, toWei(1) + WEI \div 2}, values |-> {0, 1},
     records |-> MaxRecords + 2]

NextDust ==
    \/ buyCryptocurrency(Dust)
    \/ sellCryptocurrency(Dust)

SpecDust == InitContract /\ [][NextDust]_vars

\* The price service called by one caller at a time while its subscription
\* ticks: a symbol in either case, one the service has no pair for, and a
\* subscription to nothing it knows.
Market ==
    [symbols |-> {"BTC", "eth", "XYZ"},
     subscriptions |-> {{"BTC", "XYZ"}, {"XYZ"}},
     events |-> {"24hrTicker", "trade"}, pairs |-> {"XYZUSDT"}]

InitOracle == Init /\ contract = TRUE

NextOracle ==
    \/ getPrice(Market)
    \/ getAllPrices
    \/ get24hrStats(Market)
    \/ statsPrice
    \/ startPriceStream(Market)
    \/ onMessage(Market)
    \/ onClose

SpecOracle == InitOracle /\ [][NextOracle]_vars

\* Requests served one at a time: orders of two users, the portfolio of the
\* user whose wallet is the signer's, and the price of one symbol asked of
\* the price service.
Folio == Domain(Users, {"ETH", "ADA"}, {1}, {1}, {1})

FolioMarket == [symbols |-> {"ADA"}, users |-> {"u1"}]

NextFolio ==
    \/ /\ reply.pc = "idle"
       /\ Step("p1", Folio)
       /\ UNCHANGED <<trip, view, oracleVars, reply>>
    \/ /\ reply.pc = "idle" /\ procs["p1"].pc = "idle"
       /\ getPrice(FolioMarket)
    \/ /\ procs["p1"].pc = "idle"
       /\ BalancesRequest(FolioMarket)
    \/ BalancesPrices
    \/ BalancesSum

SpecFolio == InitOracle /\ [][NextFolio]_vars

\* The price endpoints asked one request at a time.
PriceRequests == [symbols |-> {"", "BTC", "eth", "XYZ"}]

NextPrices ==
    \/ PriceRequest(PriceRequests)
    \/ PriceFetch
    \/ StatsFetch
    \/ StatsPriceFetch
    \/ CryptosRequest
    \/ CryptosPrices

SpecPrices == InitOracle /\ [][NextPrices]_vars

\* -------------------------------------------------------------- properties
\* Vocabulary of the properties.
Tracked(s) == toUpperCase(s) \notin OffChainOnly
ChainOk(result) == result = "ok"
ChainFailure(result) == result # "" /\ result # "ok"

\* C1: for a tracked asset, when the chain call does not report success
\* (revert, contract not initialized, node unreachable) the order is
\* answered as failed with the chain's error message and no journal entry is
\* written: a request whose chain result is a failure never waits for the
\* INSERT, and is answered 400 with that result, having written no row.
C1_ChainFailureFailsOrder ==
    /\ \A p \in Procs : ~ChainFailure(procs[p].result)
    /\ ChainFailure(out.result) =>
         /\ "chain" \in out.calls
         /\ out.status = 400
         /\ out.message = out.result
         /\ out.wrote = 0
         /\ "dbWrite" \notin out.calls

C1_Witness ==
    /\ out.result = "Cryptocurrency not supported"
    /\ Tracked(out.sym)
    /\ out.status = 400

\* C2: every order answered as successful adds exactly one journal entry
\* and, for a tracked asset, exactly one on-chain record whose reference is
\* the one stored in that entry; for an off-chain-only symbol it adds no
\* on-chain record.
C2_OneEntryPerLedger ==
    out.status = 200 =>
        /\ out.wrote > 0
        /\ out.wrote = Len(journal)
        /\ journal[out.wrote].tx_hash = out.hash
        /\ IF Tracked(out.sym)
           THEN /\ out.hash \in 1..Len(transactions)
                /\ transactions[out.hash].cryptoSymbol = toUpperCase(out.sym)
                /\ transactions[out.hash].transactionType = out.op
           ELSE out.hash = 0

\* C3: the journal write of a tracked-asset order happens only after the
\* chain call returned a successful receipt: a tracked-asset request waits
\* for its INSERT only with a receipt of a record the contract holds, and
\* every journal row of a tracked asset names such a record.
C3_JournalAfterReceipt ==
    /\ \A p \in Procs :
         (procs[p].pc = "write" /\ Tracked(procs[p].sym)) =>
             /\ ChainOk(procs[p].result)
             /\ procs[p].hash \in 1..Len(transactions)
    /\ \A i \in 1..Len(journal) :
         Tracked(journal[i].crypto_symbol) =>
             /\ journal[i].tx_hash \in 1..Len(transactions)
             /\ LET tx == transactions[journal[i].tx_hash]
                IN /\ tx.cryptoSymbol = journal[i].crypto_symbol
                   /\ tx.transactionType = journal[i].type
                   /\ tx.amount = toWei(journal[i].amount)

C3_Witness ==
    \E i \in 1..Len(journal) :
        journal[i].crypto_symbol = "ADA" /\ journal[i].tx_hash # 0

\* C4: when the on-chain mutation of an order succeeded and the journal
\* write then fails, the order is not answered as a failure.
C4_TradeOccurredNotFailure ==
    (ChainOk(out.result) /\ "dbWrite" \in out.calls /\ out.wrote = 0) =>
        out.status = 200

\* C5: an accepted order for ETH or BTC, however the request spells the
\* symbol, makes no buy or sell call to the contract: the contract holds no
\* transaction record and no balance of ETH or BTC.
C5_OffChainOnlyNeverOnChain ==
    /\ \A i \in 1..Len(transactions) : Tracked(transactions[i].cryptoSymbol)
    /\ \A a \in Accounts, s \in OffChainOnly : userBalances[a][s] = 0

\* C6: with orders processed one at a time, the journal-derived balance of
\* every user in every off-chain-only symbol is at least 0 in every state.
C6_JournalBalanceNonNegative ==
    \A u \in Users, s \in OffChainOnly : JournalBalance(u, s) >= 0

C6_Witness ==
    \E i \in 1..Len(journal) :
        /\ journal[i].type = "sell"
        /\ journal[i].crypto_symbol \in OffChainOnly
        /\ journal[i].tx_hash = 0

\* C7: two concurrent sells of one user and one off-chain-only symbol can
\* both pass the pre-flight check before either writes, both succeed, and
\* leave the journal-derived balance below zero (the witness); and a write
\* takes that balance below zero in this way only: it is the write of a
\* sell that passed its own check, on a balance that another write has
\* lowered since, and it is answered as a success.
C7_OverdrawByStaleCheck ==
    [][\A u \in Users, s \in OffChainOnly :
         (JournalBalance(u, s) >= 0 /\ JournalBalance(u, s)' < 0) =>
             \E p \in Procs :
                 LET r == procs[p]
                 IN /\ r.pc = "write" /\ procs'[p].pc = "idle"
                    /\ r.op = "sell" /\ r.user = u /\ toUpperCase(r.sym) = s
                    /\ r.balance >= r.amount
                    /\ r.balance > JournalBalance(u, s)
                    /\ out'.status = 200]_vars

C7_Witness ==
    /\ JournalBalance("u1", "ETH") < 0
    /\ out.op = "sell" /\ out.sym = "ETH" /\ out.status = 200
    /\ \E i \in 1..Len(journal) :
         /\ i # out.wrote
         /\ journal[i].type = "sell" /\ journal[i].crypto_symbol = "ETH"

\* C8: a sell whose amount is greater than the user's effective balance of
\* the symbol (as the chain answers it, or as the journal gives it when the
\* chain does not) fails with an insufficient-balance error, from the
\* pre-flight check or from the contract, and leaves journal and chain as
\* they were; when the journal read or the node fails instead, the order
\* fails with that failure and changes nothing either.
InsufficientBalance ==
    {"Insufficient cryptocurrency balance. Available",
     "Insufficient cryptocurrency balance"}
CallFailure == {"Internal server error", "node unreachable"}

C9_RoundTrip ==
    trip.stage = "returned" =>
        /\ EffectiveBalance(trip.user, trip.sym, TRUE) = trip.before[1]
        /\ EffectiveBalance(trip.user, trip.sym, FALSE) = trip.before[2]

C9_Witness ==
    /\ trip.stage = "returned" /\ trip.sym = "ADA"
    /\ Len(journal) >= 2
    /\ journal[Len(journal) - 1].type = "buy"
    /\ journal[Len(journal)].type = "sell"
    /\ journal[Len(journal) - 1].price # journal[Len(journal)].price

\* C10: an order with an unsupported symbol or a non-positive amount is
\* rejected before any external call: it is never in flight, and it is
\* answered 400 having made no price fetch, no journal read or write and no
\* chain call.
Unacceptable(r) == toUpperCase(r.sym) \notin SupportedPairs \/ r.amount <= 0

C10_RejectedBeforeAnyCall ==
    /\ \A p \in Procs : procs[p].pc # "idle" => ~Unacceptable(procs[p])
    /\ (out.op # "" /\ Unacceptable(out)) =>
         /\ out.status = 400
         /\ out.calls = {}
         /\ out.wrote = 0 /\ out.hash = 0

C10_Witness ==
    /\ out.op = "buy" /\ out.sym = "XYZ" /\ out.amount = 1 /\ out.ethValue = 1
    /\ out.status = 400

\* C11: in the sell handler of trading.controller.js, when the chain-side
\* sell call throws or fails the caller is told the sale failed and no
\* journal entry is written: no order goes on with the substitute (mock)
\* result, and no journal row carries its hash.
C11_LegacySellFailsWithoutMock ==
    /\ out.result = "mock" => out.status # 200 /\ out.wrote = 0
    /\ \A i \in 1..Len(journal) : journal[i].tx_hash # MockHash

\* The direct call a step makes, and whether it went through.
Succeeded(c, fn) == c.fn = fn /\ c.revert = ""
Failed(c, fn) == c.fn = fn /\ c.revert # ""

\* C12: on the contract, sellCryptocurrency(symbol, amount) reverts whenever
\* the caller's recorded balance of symbol is less than amount, a reverted
\* sell leaves every balance, the counter, the log and the reserve as they
\* were, and no balance is ever negative.
C12_SellNeedsBalance ==
    [][/\ last'.fn = "sell" /\ userBalances[last'.sender][last'.sym] < last'.amount
            => last'.revert # ""
       /\ Failed(last', "sell") => UNCHANGED ledgerVars
       /\ \A a \in Accounts, s \in ChainSymbols : userBalances'[a][s] >= 0]_vars

C12_Witness ==
    /\ last.fn = "sell" /\ last.revert = "Insufficient cryptocurrency balance"
    /\ userBalances[last.sender][last.sym] < last.amount
    /\ \E a \in Accounts : userBalances[a][last.sym] >= last.amount

\* C13: the transaction counter starts at 0, goes up by exactly 1 on every
\* successful buy or sell, and is left as it is by every rejected buy or
\* sell and by every other operation.
C13_CounterCountsTrades ==
    /\ transactionCount = 0
    /\ [][IF Succeeded(last', "buy") \/ Succeeded(last', "sell")
          THEN transactionCount' = transactionCount + 1
          ELSE transactionCount' = transactionCount]_vars

C13_Witness ==
    /\ transactionCount = 2
    /\ Succeeded(last, "sell")

\* floor(amount * price / 10^18) at the price the contract holds.
Floor(s, amt) == (amt * cryptocurrencies[s].price) \div WEI

\* C14: buyCryptocurrency(symbol, amount) on a registered symbol with
\* amount > 0 and cost = floor(amount * price / 10^18): a payment below cost
\* reverts; a payment of cost or more succeeds, the caller is refunded
\* exactly payment - cost (nothing when they are equal), the caller's
\* balance of symbol goes up by exactly amount and no other balance changes.
C14_BuyPaysCost ==
    [][LET c == last'
           cost == Floor(c.sym, c.amount)
       IN (c.fn = "buy" /\ cryptocurrencies[c.sym].isActive /\ c.amount > 0) =>
            IF c.value < cost
            THEN c.revert # "" /\ UNCHANGED ledgerVars
            ELSE /\ c.revert = ""
                 /\ eth' = [eth EXCEPT ![c.sender] = @ - c.value + (c.value - cost)]
                 /\ reserve' = reserve + cost
                 /\ userBalances' =
                        [userBalances EXCEPT ![c.sender][c.sym] = @ + c.amount]]_vars

C14_Witness ==
    /\ Succeeded(last, "buy")
    /\ last.value = 2 /\ reserve = 1
    /\ eth[last.sender] = Purse - 1
    /\ userBalances[last.sender][last.sym] = last.amount

\* C15: sellCryptocurrency(symbol, amount) by a caller holding the amount
\* reverts when the reserve is less than proceeds = floor(amount * price /
\* 10^18); when it succeeds the caller's balance of symbol goes down by
\* exactly amount, the reserve by exactly proceeds, and the caller receives
\* exactly proceeds.
C15_SellPaysProceeds ==
    [][LET c == last'
           proceeds == Floor(c.sym, c.amount)
       IN (/\ c.fn = "sell" /\ cryptocurrencies[c.sym].isActive /\ c.amount > 0
           /\ userBalances[c.sender][c.sym] >= c.amount) =>
            IF reserve < proceeds
            THEN c.revert # "" /\ UNCHANGED ledgerVars
            ELSE /\ c.revert = ""
                 /\ userBalances' =
                        [userBalances EXCEPT ![c.sender][c.sym] = @ - c.amount]
                 /\ reserve' = reserve - proceeds
                 /\ eth' = [eth EXCEPT ![c.sender] = @ + proceeds]]_vars

C15_Witness ==
    /\ last.fn = "sell" /\ last.revert = "Contract has insufficient ETH"
    /\ userBalances[last.sender][last.sym] >= last.amount
    /\ reserve < Floor(last.sym, last.amount)

OwnerOnly == {"add", "update", "deposit", "withdraw"}

\* C16: addCryptocurrency, updateCryptoPrice, depositETH and withdrawETH
\* called by an account other than the owner revert and change no contract
\* state.
C16_OwnerOnlyCallsRevert ==
    [][(last'.fn \in OwnerOnly /\ last'.sender # owner) =>
            /\ last'.revert = "Only owner can perform this action"
            /\ UNCHANGED ledgerVars]_vars

C16_Witness ==
    /\ last.fn = "withdraw" /\ last.sender # owner
    /\ last.revert = "Only owner can perform this action"
    /\ last.amount > 0 /\ last.amount <= reserve

\* C17: the owner is the deploying account and has the same value in every
\* reachable state.
C17_OwnerNeverChanges == owner = Deployer

C17_Witness ==
    /\ Succeeded(last, "receive") /\ last.sender # Deployer /\ last.value > 0
    /\ Len(supportedCryptos) = 5
    /\ transactionCount > 0

\* C18: addCryptocurrency(symbol, price) by the owner reverts if symbol is
\* already registered or price is 0, leaving the registry as it was;
\* otherwise symbol becomes active with that price and is appended as the
\* last element of the supported-asset list.
C18_AddRegistersOnce ==
    [][LET c == last'
       IN (c.fn = "add" /\ c.sender = owner) =>
            IF cryptocurrencies[c.sym].isActive \/ c.amount = 0
            THEN c.revert # "" /\ UNCHANGED ledgerVars
            ELSE /\ c.revert = ""
                 /\ cryptocurrencies' = [cryptocurrencies EXCEPT
                        ![c.sym] = [price |-> c.amount, isActive |-> TRUE]]
                 /\ supportedCryptos' = Append(supportedCryptos, c.sym)]_vars

C18_Witness ==
    /\ Succeeded(last, "add") /\ last.sym = "BNB"
    /\ supportedCryptos = <<"BTC", "ETH", "ADA", "DOT", "BNB">>
    /\ cryptocurrencies["BNB"] = [price |-> last.amount, isActive |-> TRUE]

\* C19: updateCryptoPrice(symbol, price) by the owner reverts if symbol is
\* not registered or price is 0; otherwise the price read back for symbol is
\* the new price, and no balance, no other asset's price and no transaction
\* record changes.
C19_UpdateSetsOnePrice ==
    [][LET c == last'
       IN (c.fn = "update" /\ c.sender = owner) =>
            IF ~cryptocurrencies[c.sym].isActive \/ c.amount = 0
            THEN c.revert # "" /\ UNCHANGED ledgerVars
            ELSE /\ c.revert = ""
                 /\ cryptocurrencies'[c.sym].isActive
                 /\ cryptocurrencies'[c.sym].price = c.amount
                 /\ \A s \in ChainSymbols \ {c.sym} :
                        cryptocurrencies'[s] = cryptocurrencies[s]
                 /\ UNCHANGED <<userBalances, transactions, transactionCount,
                                userTransactions>>]_vars

C19_Witness ==
    /\ Succeeded(last, "update") /\ last.sym = "ADA"
    /\ cryptocurrencies["ADA"].price = last.amount
    /\ cryptocurrencies["ADA"].price # InitialPrice("ADA")
    /\ \E a \in Accounts : userBalances[a]["ADA"] > 0

\* C20: the on-chain log is append-only and immutable: in every state the
\* records are exactly those with ids 1..transactionCount, each completed,
\* and a record once written is never changed by a later operation, price
\* updates included.
C20_LogAppendOnly ==
    /\ [](/\ Len(transactions) = transactionCount
          /\ \A i \in 1..Len(transactions) :
                transactions[i].id = i /\ transactions[i].completed)
    /\ [][/\ Len(transactions') >= Len(transactions)
          /\ \A i \in 1..Len(transactions) : transactions'[i] = transactions[i]]_vars

C20_Witness ==
    /\ Succeeded(last, "update")
    /\ \E i \in 1..Len(transactions) :
         /\ transactions[i].cryptoSymbol = last.sym
         /\ transactions[i].price # cryptocurrencies[last.sym].price

\* The positions of id in the list the contract keeps for account a.
Filed(a, id) == {i \in 1..Len(userTransactions[a]) : userTransactions[a][i] = id}

\* C21: every transaction id in 1..transactionCount appears exactly once
\* across the per-account transaction lists, in the list of the account that
\* executed it, and each list is in increasing id order; a successful buy by
\* an account yields a record with that account as user, the bought symbol
\* and amount, type buy and completed = true.
C21_RecordsFiledByAccount ==
    /\ [](/\ \A id \in 1..transactionCount :
                /\ Cardinality(Filed(transactions[id].user, id)) = 1
                /\ \A a \in Accounts \ {transactions[id].user} : Filed(a, id) = {}
          /\ \A a \in Accounts : \A i, j \in 1..Len(userTransactions[a]) :
                i < j => userTransactions[a][i] < userTransactions[a][j])
    /\ [][Succeeded(last', "buy") =>
            LET r == transactions'[transactionCount']
            IN /\ r.user = last'.sender
               /\ r.cryptoSymbol = last'.sym
               /\ r.amount = last'.amount
               /\ r.transactionType = "buy"
               /\ r.completed = TRUE]_vars

C21_Witness ==
    /\ Succeeded(last, "buy") /\ last.sender # owner
    /\ transactionCount = 2
    /\ userTransactions[last.sender] = <<2>>
    /\ userTransactions[owner] = <<1>>

\* C22: every read of the contract (balance, price, transaction by id,
\* transactions by account, asset list) changes no state and never fails;
\* for an account, symbol or id the contract does not know it returns a zero
\* or empty result.
C22_ReadsNeverFail ==
    [][view' # view =>
        /\ UNCHANGED ledgerVars
        /\ view'.revert = ""
        /\ (view'.fn = "getCryptoPrice" /\ ~cryptocurrencies[view'.sym].isActive)
                => view'.returns = 0
        /\ (view'.fn = "getUserBalance" /\ ~cryptocurrencies[view'.sym].isActive)
                => view'.returns = 0
        /\ (view'.fn = "getUserTransactions"
                /\ \A i \in 1..Len(transactions) : transactions[i].user # view'.account)
                => view'.returns = <<>>
        /\ (view'.fn = "getTransaction" /\ view'.id \notin 1..transactionCount)
                => view'.returns.id = 0 /\ view'.returns.amount = 0]_vars

\* C23: depositETH by the owner with value v > 0 raises the reserve by
\* exactly v; withdrawETH(amount) by the owner reverts when amount exceeds
\* the reserve and otherwise lowers the reserve by exactly amount, paying it
\* to the owner; neither changes an asset balance or the transaction counter.
C23_ReserveMovesByOwner ==
    [][LET c == last'
       IN /\ (c.fn = "deposit" /\ c.sender = owner /\ c.value > 0) =>
                /\ c.revert = ""
                /\ reserve' = reserve + c.value
                /\ UNCHANGED <<userBalances, transactionCount>>
          /\ (c.fn = "withdraw" /\ c.sender = owner) =>
                IF c.amount > reserve
                THEN c.revert # "" /\ UNCHANGED ledgerVars
                ELSE /\ c.revert = ""
                     /\ reserve' = reserve - c.amount
                     /\ eth' = [eth EXCEPT ![owner] = @ + c.amount]
                     /\ UNCHANGED <<userBalances, transactionCount>>]_vars

C23_Witness ==
    /\ Succeeded(last, "withdraw") /\ last.amount = 1
    /\ reserve = 1
    /\ eth[owner] = Purse - 1

\* C24: an asset once registered stays active in every later state, and the
\* supported-asset list only grows and never holds a symbol twice.
C24_ActiveForever ==
    /\ [](\A i, j \in 1..Len(supportedCryptos) :
            i # j => supportedCryptos[i] # supportedCryptos[j])
    /\ [][/\ \A s \in ChainSymbols :
                cryptocurrencies[s].isActive => cryptocurrencies'[s].isActive
          /\ Len(supportedCryptos') >= Len(supportedCryptos)
          /\ \A i \in 1..Len(supportedCryptos) :
                supportedCryptos'[i] = supportedCryptos[i]]_vars

C24_Witness ==
    /\ last.fn = "add" /\ last.sym = "BNB" /\ last.sender = owner
    /\ last.revert = "Cryptocurrency already exists"
    /\ supportedCryptos = <<"BTC", "ETH", "ADA", "DOT", "BNB">>
    /\ transactionCount > 0

\* The amounts of the records of one type that account a holds for symbol s.
RECURSIVE Recorded(_, _, _, _)
Recorded(log, a, s, type) ==
    IF log = <<>> THEN 0
    ELSE LET r == Head(log)
         IN (IF r.user = a /\ r.cryptoSymbol = s /\ r.transactionType = type
             THEN r.amount ELSE 0) + Recorded(Tail(log), a, s, type)

\* C25: under any interleaving of buys and sells by any accounts, the
\* contract's balance of each (account, symbol) is the sum of the amounts of
\* the account's buy records for the symbol minus the sum of the amounts of
\* its sell records, in every reachable state.
C25_BalanceIsBuysMinusSells ==
    \A a \in Accounts, s \in ChainSymbols :
        userBalances[a][s] =
            Recorded(transactions, a, s, "buy") - Recorded(transactions, a, s, "sell")

C25_Witness ==
    /\ Succeeded(last, "sell")
    /\ Len(transactions) = 4
    /\ transactions[1].user # transactions[2].user
    /\ transactions[3].user # transactions[4].user
    /\ transactions[3].transactionType = "sell"
    /\ userBalances[last.sender][last.sym] = 0

\* C26: getPrice fails with an unsupported-asset error for every symbol that
\* is not one of the supported symbols, and never returns a price for it.
C26_UnsupportedSymbolFails ==
    [][(answer' # answer /\ answer'.op = "getPrice"
            /\ toUpperCase(answer'.sym) \notin SupportedPairs)
        => answer'.error # ""]_vars

\* C27: for a supported symbol getPrice never fails because of the upstream:
\* when the request fails, however many have failed before it, it returns
\* the value the cache holds for the symbol, the one most recently written
\* by a single fetch, a batch fetch or a stream tick, and the symbol's
\* fallback constant when the symbol was never cached; the failed fetch
\* leaves the cache as it was.
C27_PriceSurvivesUpstream ==
    [][(answer' # answer /\ answer'.op = "getPrice"
            /\ toUpperCase(answer'.sym) \in SupportedPairs) =>
        LET s == toUpperCase(answer'.sym)
        IN /\ answer'.error = ""
           /\ answer'.quote = Down =>
                /\ answer'.returns = IF priceCache[s] # NoPrice THEN priceCache[s]
                                     ELSE getFallbackPrice(s)
                /\ priceCache' = priceCache]_vars

C27_Witness ==
    /\ answer.op = "getPrice" /\ answer.sym = "BTC" /\ answer.quote = Down
    /\ stream.called.symbol = "BTC"
    /\ answer.returns = stream.called.price
    /\ answer.returns = priceCache["BTC"]
    /\ answer.returns # Price(43250, 0)
    /\ priceCache["ETH"] = NoPrice

\* C28: when the batched request fails, getAllPrices degrades per symbol:
\* its result has a price for every supported symbol, the cached value where
\* there is one and the symbol's fallback otherwise (so it is the fallback
\* table exactly when nothing is cached).
C28_BatchDegradesPerSymbol ==
    [][(answer' # answer /\ answer'.op = "getAllPrices" /\ answer'.quote = Down) =>
        /\ DOMAIN answer'.returns = SupportedPairs
        /\ \A s \in SupportedPairs :
            answer'.returns[s] = IF priceCache[s] # NoPrice THEN priceCache[s]
                                 ELSE getFallbackPrice(s)]_vars

\* C29: get24hrStats never fails the caller: when the statistics request
\* fails it returns a record whose price, high and low are the price getPrice
\* answers then (the fresh quote when its request succeeds, else the cache
\* entry, else the fallback) and whose change, change percent and volume are
\* zero.
C29_StatsDegrade ==
    [][(answer.pending /\ answer'.op = "get24hrStats" /\ ~answer'.pending) =>
        LET s == toUpperCase(answer.sym)
            current == IF answer'.quote # Down THEN toFixed8(answer'.quote)
                       ELSE IF s \in SupportedPairs /\ priceCache[s] # NoPrice
                            THEN priceCache[s]
                       ELSE getFallbackPrice(s)
            r == answer'.returns
        IN /\ answer'.error = ""
           /\ r.symbol = s
           /\ r.price = current /\ r.high = current /\ r.low = current
           /\ r.change = Price(0, 0) /\ r.changePercent = Price(0, 0)
           /\ r.volume = Price(0, 0)]_vars

C29_Witness ==
    /\ answer.op = "get24hrStats" /\ ~answer.pending /\ answer.sym = "eth"
    /\ answer.quote = Down
    /\ answer.returns.change = Price(0, 0)
    /\ answer.returns.high = priceCache["ETH"]
    /\ answer.returns.high # Price(2650, 0)
    /\ priceCache["BTC"] = NoPrice

\* C30: in a price subscription every well-formed ticker message for a
\* supported symbol first overwrites the symbol's cache entry and then calls
\* the callback with the same price; a malformed or unrecognised message
\* changes no cache entry, calls no callback and leaves the subscription
\* open, so that later tickers are still processed.
C30_TicksCacheThenCallback ==
    /\ [](stream.state = "open" => ENABLED onMessage(Market))
    /\ [][(stream.state = "open" /\ stream'.state # "closed" /\ stream' # stream) =>
            LET f == stream'.frame
            IN IF f.json /\ f.e = "24hrTicker"
                    /\ \E k \in SupportedPairs : binancePair(k) = f.s
               THEN LET s == CHOOSE k \in SupportedPairs : binancePair(k) = f.s
                    IN /\ priceCache' = [priceCache EXCEPT ![s] = toFixed8(f.c)]
                       /\ stream'.called = Tick(s, toFixed8(f.c), priceCache'[s])
                       /\ stream'.state = "open"
               ELSE /\ priceCache' = priceCache
                    /\ stream'.called = NoTick
                    /\ stream'.state = "open"]_vars

C30_Witness ==
    /\ stream.state = "open" /\ stream.dropped
    /\ stream.frame.json /\ stream.frame.s = "BTCUSDT"
    /\ stream.called = Tick("BTC", Price(4, 0), Price(4, 0))
    /\ priceCache["BTC"] = Price(4, 0)
    /\ priceCache["ETH"] = Price(2, 0)

\* The balance of symbol s a portfolio response shows: that of its holding,
\* 0 when it has none.
RECURSIVE Shown(_, _)
Shown(holdings, s) ==
    IF holdings = <<>> THEN 0
    ELSE IF Head(holdings).symbol = s THEN Head(holdings).balance
    ELSE Shown(Tail(holdings), s)

\* The symbols both ledgers know.
BothLedgers == ChainSymbols \cap SupportedPairs

\* C31: the effective balance of (account, symbol) is, for a tracked asset,
\* the on-chain balance when that is positive and the journal's buys minus
\* sells when it is zero or cannot be read; for an off-chain-only asset it
\* is always the journal's buys minus sells.
C31_EffectiveBalanceChainFirst ==
    [][(reply.pc = "sum" /\ reply'.op = "balances" /\ reply'.status = 200) =>
        \A s \in BothLedgers :
            LET onChain == fromWei(userBalances[wallet_address(reply.user)][s])
            IN Shown(reply'.holdings, s) =
                IF s \notin OffChainOnly /\ onChain > 0 THEN onChain
                ELSE JournalBalance(reply.user, s)]_vars

\* The symbols a portfolio response has a holding for.
Held(holdings) == {holdings[i].symbol : i \in 1..Len(holdings)}

\* C32: a portfolio has a holding for a symbol if and only if the account's
\* effective balance of the symbol (the on-chain balance when positive, else
\* the journal's) is positive; a symbol of zero effective balance never
\* appears.
C32_HoldingIffPositive ==
    [][(reply.pc = "sum" /\ reply'.op = "balances" /\ reply'.status = 200) =>
        \A s \in BothLedgers :
            LET onChain == fromWei(userBalances[wallet_address(reply.user)][s])
                effective == IF s \notin OffChainOnly /\ onChain > 0 THEN onChain
                             ELSE JournalBalance(reply.user, s)
            IN s \in Held(reply'.holdings) <=> effective > 0]_vars

\* The percentages of a portfolio response, added up.
RECURSIVE Shares(_)
Shares(holdings) ==
    IF holdings = <<>> THEN 0
    ELSE Head(holdings).percentage + Shares(Tail(holdings))

\* C33: whenever the total value of a portfolio is greater than 0 its
\* percentages add up to 100% within the rounding of two decimals per
\* holding (half a hundredth each), and every holding has a price to be
\* valued with, also when the price table came from the cache or the
\* fallback.
C33_SharesSumToWhole ==
    [][(reply.pc = "sum" /\ reply'.op = "balances" /\ reply'.status = 200) =>
        LET h == reply'.holdings
            off == Shares(h) - 10000
        IN /\ \A i \in 1..Len(h) : h[i].price # NoPrice /\ h[i].value # NaN
           /\ reply'.total > 0 =>
                2 * (IF off < 0 THEN 0 - off ELSE off) <= Len(h)]_vars

\* C34: every price or stats response is tagged with its true provenance:
\* the tag says live only when the value came from a successful upstream
\* fetch in that request, cached when it was served from the cache after a
\* failure, and fallback when it is the static constant.
C34_TaggedWithProvenance ==
    (reply.op \in {"price", "cryptocurrencies"} /\ reply.status = 200) =>
        /\ reply.source = "binance-api" <=> reply.origin = "live"
        /\ reply.source = "cached" <=> reply.origin = "cached"
        /\ reply.source = "fallback" <=> reply.origin = "fallback"

\* C35: the price the journal stores for a successful tracked-asset order
\* equals the unit price recorded in the corresponding on-chain record: the
\* same number, or the same value once the journal's coins are put in wei.
C35_JournalPriceIsChainPrice ==
    \A i \in 1..Len(journal) :
        LET row == journal[i]
        IN (row.tx_hash \in 1..Len(transactions)) =>
            \/ row.price = transactions[row.tx_hash].price
            \/ toWei(row.price) = transactions[row.tx_hash].price

\* A direct call was made in this step (a call that repeats the last one
\* and reverts changes nothing at all).
Called(fn) == last'.fn = fn /\ (last' # last \/ transactionCount' # transactionCount)

\* An amount of s whose cost the division truncates to nothing.
Dusty(c) ==
    /\ cryptocurrencies[c.sym].isActive
    /\ c.amount > 0
    /\ c.amount * cryptocurrencies[c.sym].price < WEI

\* C36: on the contract a buy with amount > 0 and amount * price < 10^18
\* has cost 0: it succeeds with a payment of 0, credits the caller's balance
\* by amount and increments the transaction counter, whatever was sent
\* comes back, and a later sell of that amount pays out 0.
C36_DustCostsNothing ==
    /\ [][(Called("buy") /\ Dusty(last')) =>
            /\ last'.revert = ""
            /\ userBalances'[last'.sender][last'.sym] =
                    userBalances[last'.sender][last'.sym] + last'.amount
            /\ transactionCount' = transactionCount + 1
            /\ reserve' = reserve
            /\ eth' = eth]_vars
    /\ [][(Called("sell") /\ Dusty(last')
                /\ userBalances[last'.sender][last'.sym] >= last'.amount) =>
            /\ last'.revert = ""
            /\ userBalances'[last'.sender][last'.sym] =
                    userBalances[last'.sender][last'.sym] - last'.amount
            /\ reserve' = reserve
            /\ eth' = eth]_vars

\* A buy of half a coin of ADA went through with nothing sent, and then the
\* sell of that half coin.
C36_Witness ==
    /\ Succeeded(last, "sell") /\ Dusty(last)
    /\ transactionCount = 2
    /\ transactions[1].transactionType = "buy"
    /\ transactions[1].amount = last.amount
    /\ transactions[1].user = last.sender
    /\ reserve = 0 /\ eth[last.sender] = Purse

\* What the record of a trade says it cost.
CostOf(record) == (record.amount * record.price) \div WEI

\* C37: immediately after a successful buy of amount a of symbol s by account
\* A, a sell of a of s by A succeeds: A's balance is at least a and the
\* reserve at least the proceeds, which equal the cost just paid.
C37_SellAfterBuySucceeds ==
    [][(/\ Succeeded(last, "buy")
        /\ Called("sell")
        /\ last'.sender = last.sender
        /\ last'.sym = last.sym
        /\ last'.amount = last.amount) =>
            /\ last'.revert = ""
            /\ userBalances[last.sender][last.sym] >= last.amount
            /\ reserve >= CostOf(transactions[transactionCount])
            /\ reserve - reserve' = CostOf(transactions[transactionCount])
            /\ eth'[last.sender] - eth[last.sender] =
                    CostOf(transactions[transactionCount])]_vars

\* An account bought at a cost of at least one wei and sold the same amount
\* in its next call.
C37_Witness ==
    /\ Succeeded(last, "sell")
    /\ transactionCount >= 2
    /\ LET bought == transactions[transactionCount - 1]
       IN /\ bought.transactionType = "buy"
          /\ bought.user = last.sender
          /\ bought.cryptoSymbol = last.sym
          /\ bought.amount = last.amount
          /\ CostOf(bought) > 0

\* C38: every tracked-asset order is signed with the one configured key,
\* whichever user placed it: the account that sends transactions, owns the
\* on-chain records and is credited or debited is the signer's for all
\* users, and the entry of a user's own wallet never changes unless that
\* wallet is the signer's.
C38_OneKeySignsAll ==
    /\ \A a \in Accounts \ {"S"} :
        /\ nonce[a] = 0
        /\ userTransactions[a] = <<>>
        /\ \A s \in ChainSymbols : userBalances[a][s] = 0
    /\ \A i \in 1..Len(transactions) : transactions[i].user = "S"
    /\ \A i \in 1..Len(journal) :
        journal[i].tx_hash \in 1..Len(transactions) =>
            transactions[journal[i].tx_hash].user = "S"

\* An order of u2, whose wallet is not the signer's, went through the
\* contract: the signer's entry holds the coins, the wallet's nothing.
C38_Witness ==
    \E i \in 1..Len(journal) :
        /\ journal[i].user_id = "u2"
        /\ journal[i].type = "buy"
        /\ journal[i].tx_hash \in 1..Len(transactions)
        /\ transactions[journal[i].tx_hash].user = "S"
        /\ userBalances["S"][journal[i].crypto_symbol] >= toWei(journal[i].amount)
        /\ userBalances["W"][journal[i].crypto_symbol] = 0
        /\ nonce["S"] > 0

\* C39: the wrappers buy and sell of blockchain.js never throw; they return
\* a success with a transaction reference or a failure with an error. So
\* the journal entry of an order that was routed to the contract holds the
\* reference of a record on the chain, the entry of an order that bypassed
\* it holds none, and a wrapper that was called and returned no success
\* ends the order with no entry.
C39_ReferenceIffRouted ==
    /\ out.wrote > 0 =>
        /\ out.wrote = Len(journal)
        /\ "chain" \in out.calls <=> journal[out.wrote].tx_hash # 0
        /\ "chain" \in out.calls =>
            /\ out.result = "ok"
            /\ journal[out.wrote].tx_hash \in 1..Len(transactions)
    /\ \A p \in Procs :
        ("chain" \in procs[p].calls /\ procs[p].pc \notin {"estimate", "send"}) =>
            procs[p].result # ""
    /\ (out.pc = "done" /\ "chain" \in out.calls) => out.result # ""

\* The journal holds the entry of an order that bypassed the contract, and
\* an order routed to it has just written its own.
C39_Witness ==
    /\ out.wrote = 2
    /\ "chain" \in out.calls
    /\ journal[2].tx_hash > 0
    /\ journal[1].tx_hash = 0
    /\ journal[1].crypto_symbol = "ETH"

\* The ether a direct call moves into the contract (out of it when
\* negative): nothing when it reverted.
Flow(c) ==
    IF c.revert # "" THEN 0
    ELSE IF c.fn \in {"deposit", "receive"} THEN c.value
    ELSE IF c.fn = "buy" THEN (c.amount * cryptocurrencies[c.sym].price) \div WEI
    ELSE IF c.fn = "sell" THEN 0 - (c.amount * cryptocurrencies[c.sym].price) \div WEI
    ELSE IF c.fn = "withdraw" THEN 0 - c.amount
    ELSE 0

\* C40: in every reachable state of the contract the reserve equals the
\* deposits (owner deposits and plain transfers) plus the costs of the
\* successful buys minus the proceeds of the successful sells minus the
\* withdrawals: it starts at 0 and every call changes it by exactly that
\* call's term, so the part of a payment above the cost is never retained;
\* the ether of the accounts and the reserve together never change.
C40_ReserveIsSumOfFlows ==
    /\ reserve = 0
    /\ [][reserve' - reserve = Flow(last')]_vars
    /\ [](reserve >= 0 /\ reserve + eth["O"] + eth["S"] + eth["W"] = 3 * Purse)

\* After a deposit an account bought with more than the cost: the reserve
\* holds the deposit and the cost, not the payment.
C40_Witness ==
    /\ Succeeded(last, "buy")
    /\ CostOf(transactions[transactionCount]) > 0
    /\ last.value > CostOf(transactions[transactionCount])
    /\ reserve > CostOf(transactions[transactionCount])
    /\ eth[last.sender] = Purse - CostOf(transactions[transactionCount])

====
